---- MODULE Spec2Model ----
(***************************************************************************)
(* Model of the OutputFormatter plugin: the working memory that the tools  *)
(* read (fsc_functional_requirements, fsc_safety_goals), the validators    *)
(* and statistics of the FSC generators, the sheets of the allocation      *)
(* workbook, and the document tools that call them.                        *)
(***************************************************************************)
EXTENDS Integers, Sequences, FiniteSets, TLC

VARIABLES
    fsc_functional_requirements,  \* cat.working_memory["fsc_functional_requirements"]
    fsc_safety_goals,             \* cat.working_memory["fsc_safety_goals"]
    fsc_extras,                   \* the other working-memory keys the tools read
    response,                     \* what the last tool or generator call returned
    llm_response,                 \* the text handed to the parsers, as its lines
    working_memory,               \* the keys of cat.working_memory the hook and the
                                  \* file names read, as a function from the keys present
    review_items                  \* the review items handed to create_review_excel

vars == <<fsc_functional_requirements, fsc_safety_goals, fsc_extras, response,
          llm_response, working_memory, review_items>>

(***************************************************************************)
(* Bounds of the model.                                                    *)
(***************************************************************************)
MaxFsrs == 3
MaxGoals == 2
MaxCellFsrs == 12

(***************************************************************************)
(* Python values.  A key that a dict does not hold is the value NONE;      *)
(* dict.get(key, default) is Get.                                          *)
(***************************************************************************)
NONE == "<absent>"

Get(d, key, default) == IF d[key] = NONE THEN default ELSE d[key]

\* Python truthiness of a str-or-missing value: None and '' are falsy.
Truthy(v) == v # NONE /\ v # ""

\* The code points of the strings the model sorts (Python compares str by
\* code point, left to right).
CodePoints(s) ==
    CASE s = "A"   -> <<65>>
      [] s = "B"   -> <<66>>
      [] s = "C"   -> <<67>>
      [] s = "D"   -> <<68>>
      [] s = "QM"  -> <<81, 77>>
      [] s = "BCM" -> <<66, 67, 77>>
      [] s = "ECU" -> <<69, 67, 85>>
      [] s = "TBD" -> <<84, 66, 68>>
      [] s = "Unallocated" -> <<85, 110, 97, 108, 108, 111, 99, 97, 116, 101, 100>>
      [] OTHER     -> <<>>

RECURSIVE LexLess(_, _)
LexLess(a, b) ==
    IF a = <<>> THEN b # <<>>
    ELSE IF b = <<>> THEN FALSE
    ELSE IF Head(a) # Head(b) THEN Head(a) < Head(b)
    ELSE LexLess(Tail(a), Tail(b))

\* Python's  s < t  on str.
StrLess(s, t) == LexLess(CodePoints(s), CodePoints(t))

\* sorted(S) of a set of distinct strings.
RECURSIVE SortedStrs(_)
SortedStrs(S) ==
    IF S = {} THEN <<>>
    ELSE LET m == CHOOSE x \in S : \A y \in S \ {x} : StrLess(x, y)
         IN  <<m>> \o SortedStrs(S \ {m})

Reverse(s) == [i \in 1..Len(s) |-> s[Len(s) + 1 - i]]

\* sorted(S, reverse=True) of a set of distinct strings.
SortedStrsReverse(S) == Reverse(SortedStrs(S))

Range(s) == {s[i] : i \in 1..Len(s)}

\* [x for x in s if Test(x)]
FilterSeq(s, Test(_)) == SelectSeq(s, Test)

\* s[:n]
Take(s, n) == SubSeq(s, 1, IF n < Len(s) THEN n ELSE Len(s))

(***************************************************************************)
(* Records of the working memory.  An FSR is a dict with the keys id,      *)
(* asil, allocated_to, type, parent_safety_goal, parent_sg,                *)
(* safety_goal_id and fsr_id; a parent field is absent, a str or a list.   *)
(***************************************************************************)
PAbsent == [tag |-> "absent", items |-> <<>>]
PStr(s) == [tag |-> "str", items |-> <<s>>]
PList(l) == [tag |-> "list", items |-> l]

Fsr(id, asil, allocated_to, type, parent_safety_goal, safety_goal_id) ==
    [id |-> id, asil |-> asil, allocated_to |-> allocated_to, type |-> type,
     parent_safety_goal |-> parent_safety_goal, parent_sg |-> PAbsent,
     safety_goal_id |-> safety_goal_id, fsr_id |-> NONE]

Goal(id, asil) == [id |-> id, asil |-> asil]

NoResponse == [kind |-> "none"]

\* What a tool or a parser reads and leaves as it is.
Memory ==
    <<fsc_functional_requirements, fsc_safety_goals, fsc_extras, llm_response,
      working_memory, review_items>>

\* cat.working_memory without the keys system_name, needs_formatting,
\* last_operation and fsc_stage.
NoKeys == <<>>

\* working_memory[key] = value
Put(memory, key, value) ==
    [k \in DOMAIN memory \cup {key} |-> IF k = key THEN value ELSE memory[k]]

\* del working_memory[key]
Del(memory, key) == [k \in DOMAIN memory \ {key} |-> memory[k]]

(***************************************************************************)
(* Allocation workbook: allocation_formatter.py                            *)
(***************************************************************************)
NotAllocatedSentinels == {"TBD", "NOT ALLOCATED", "N/A"}

\* component and component not in ['TBD', 'NOT ALLOCATED', 'N/A']
IsAllocated(f) ==
    Truthy(f.allocated_to) /\ f.allocated_to \notin NotAllocatedSentinels

AsilOf(f) == Get(f, "asil", "QM")

\* by_component / component_analysis: the allocated FSRs of one component,
\* in input order.
ComponentFsrs(fsrs, component) ==
    LET Test(f) == IsAllocated(f) /\ f.allocated_to = component
    IN  FilterSeq(fsrs, Test)

Components(fsrs) == {fsrs[i].allocated_to : i \in {j \in 1..Len(fsrs) : IsAllocated(fsrs[j])}}

AsilSet(fsrs) == {AsilOf(fsrs[i]) : i \in 1..Len(fsrs)}

\* The number of identifiers a cell of the By Component sheet shows for a
\* component (comp_fsrs[:5]) and for the unallocated FSRs (unallocated[:10]).
ComponentIdLimit == 5
UnallocatedIdLimit == 10

\* The text of a cell that lists identifiers: the joined identifiers and what
\* is appended to them.  f" ... (+{k} more)" is the suffix <<" ... (+", k, " more)">>.
IdsCell(ids, limit) ==
    [ids |-> Take(ids, limit),
     suffix |-> IF Len(ids) > limit
                THEN <<" ... (+", Len(ids) - limit, " more)">>
                ELSE <<>>]

\* [f.get('id', '') for f in fsrs]
IdsOf(fsrs) == [i \in 1..Len(fsrs) |-> Get(fsrs[i], "id", "")]

\* highest_asil = asil_levels[0] if asil_levels else 'QM'
HighestAsil(asil_levels) == IF asil_levels # <<>> THEN asil_levels[1] ELSE "QM"

\* One data row of the By Component sheet.
ByComponentRow(fsrs, component) ==
    LET comp_fsrs == ComponentFsrs(fsrs, component)
        asil_levels == SortedStrsReverse(AsilSet(comp_fsrs))
    IN  [component |-> component,
         fsr_count |-> Len(comp_fsrs),
         asil_levels |-> asil_levels,
         highest_asil |-> HighestAsil(asil_levels),
         fsr_ids |-> IdsCell(IdsOf(comp_fsrs), ComponentIdLimit)]

create_by_component_sheet(fsrs) ==
    LET order == SortedStrs(Components(fsrs))
    IN  [i \in 1..Len(order) |-> ByComponentRow(fsrs, order[i])]

\* The row of the unallocated FSRs that closes the By Component sheet.
UnallocatedRow(fsrs) ==
    LET Test(f) == ~IsAllocated(f)
        unallocated == FilterSeq(fsrs, Test)
    IN  IF unallocated = <<>> THEN <<>>
        ELSE <<[fsr_count |-> Len(unallocated),
                fsr_ids |-> IdsCell(IdsOf(unallocated), UnallocatedIdLimit)]>>

\* for asil in ['D', 'C', 'B', 'A', 'QM']
AsilOrder == <<"D", "C", "B", "A", "QM">>

ByAsilRow(fsrs, asil) ==
    LET Test(f) == AsilOf(f) = asil
        asil_fsrs == FilterSeq(fsrs, Test)
        allocated == FilterSeq(asil_fsrs, IsAllocated)
    IN  [asil |-> asil,
         total |-> Len(asil_fsrs),
         allocated |-> Len(allocated),
         unallocated |-> Len(asil_fsrs) - Len(allocated)]

create_by_asil_sheet(fsrs) ==
    LET Present(a) == a \in AsilSet(fsrs)
        levels == FilterSeq(AsilOrder, Present)
    IN  [i \in 1..Len(levels) |-> ByAsilRow(fsrs, levels[i])]

\* RiskLevel with the test for 'C' forgotten.
RiskLevel_OnlyD(asil_levels) ==
    IF Len(asil_levels) > 1
    THEN IF "D" \in Range(asil_levels) THEN "HIGH" ELSE "MEDIUM"
    ELSE "LOW"

\* The risk level of a component from its sorted list of distinct ASIL values.
RiskLevel(asil_levels) ==
    IF Len(asil_levels) > 1
    THEN IF "D" \in Range(asil_levels) \/ "C" \in Range(asil_levels)
         THEN "HIGH"
         ELSE "MEDIUM"
    ELSE "LOW"

FreedomRow(fsrs, component) ==
    LET comp_fsrs == ComponentFsrs(fsrs, component)
        asil_levels == SortedStrsReverse(AsilSet(comp_fsrs))
    IN  [component |-> component,
         asil_levels |-> asil_levels,
         risk |-> RiskLevel(asil_levels),
         fsr_count |-> Len(comp_fsrs)]

create_freedom_interference_sheet(fsrs) ==
    LET order == SortedStrs(Components(fsrs))
    IN  [i \in 1..Len(order) |-> FreedomRow(fsrs, order[i])]

\* allocation_formatter.create_allocation_excel: None without FSRs, else the
\* workbook with its sheets filled.
AllocationWorkbook(fsrs) ==
    [sheets |-> <<"Allocation Matrix", "By Component", "By ASIL",
                  "Freedom From Interference">>,
     by_component |-> create_by_component_sheet(fsrs),
     by_component_unallocated |-> UnallocatedRow(fsrs),
     by_asil |-> create_by_asil_sheet(fsrs),
     freedom |-> create_freedom_interference_sheet(fsrs)]

\* The sheets the message of the tool lists as the contents of the file.
AnnouncedSheets ==
    <<"Allocation Matrix", "By Component", "By ASIL", "Freedom from Interference",
      "Validation">>

\* hook_formatter.create_allocation_excel (the tool).
create_allocation_excel ==
    LET fsrs_data == fsc_functional_requirements
        allocated_count == Len(FilterSeq(fsrs_data, IsAllocated))
    IN  /\ response' =
             IF fsrs_data = <<>>
             THEN [kind |-> "create_allocation_excel", status |-> "no_fsrs"]
             ELSE IF allocated_count = 0
             THEN [kind |-> "create_allocation_excel", status |-> "not_allocated"]
             ELSE [kind |-> "create_allocation_excel", status |-> "ok",
                   allocated_count |-> allocated_count,
                   total |-> Len(fsrs_data),
                   announced |-> AnnouncedSheets,
                   wb |-> AllocationWorkbook(fsrs_data)]
        /\ UNCHANGED Memory

\* The value that stands for a division raising ZeroDivisionError; no
\* percentage is negative.
ZeroDivisionError == 0 - 1

\* n*100//m
PctFloor(n, m) == IF m = 0 THEN ZeroDivisionError ELSE (n * 100) \div m

\* hook_formatter.generate_allocation_analysis_report: the ASIL distribution
\* lines and the components reported as high risk.
generate_allocation_analysis_report(fsrs_data) ==
    LET allocated == FilterSeq(fsrs_data, IsAllocated)
        Present(a) == a \in AsilSet(fsrs_data)
        IsHigh(c) == LET asil_levels == AsilSet(ComponentFsrs(allocated, c))
                     IN  Cardinality(asil_levels) > 1
                         /\ ("D" \in asil_levels \/ "C" \in asil_levels)
    IN  [total |-> Len(fsrs_data),
         allocated_count |-> Len(allocated),
         unallocated_count |-> Len(fsrs_data) - Len(allocated),
         allocated_pct |-> IF Len(fsrs_data) > 0
                           THEN PctFloor(Len(allocated), Len(fsrs_data)) ELSE 0,
         asil_distribution |-> FilterSeq(AsilOrder, Present),
         high_risk_components |-> {c \in Components(allocated) : IsHigh(c)}]

\* hook_formatter.create_allocation_report (the tool).
create_allocation_report ==
    /\ response' =
         IF fsc_functional_requirements = <<>>
         THEN [kind |-> "create_allocation_report", status |-> "no_fsrs"]
         ELSE [kind |-> "create_allocation_report", status |-> "ok",
               report |-> generate_allocation_analysis_report(fsc_functional_requirements)]
    /\ UNCHANGED Memory

(***************************************************************************)
(* FSC generators: fsc_word_generator.py, fsc_excel_generator.py           *)
(***************************************************************************)
\* str.lower() on the type values the model holds.
Lower(s) ==
    CASE s = "Detection" -> "detection"
      [] s = "Reaction"  -> "reaction"
      [] s = "General"   -> "general"
      [] OTHER           -> s

\* f"{n / m * 100:.0f}": the percentage rounded to an integer, ties to even.
PctRound(n, m) ==
    LET q == (100 * n) \div m
        r == (100 * n) % m
    IN  IF m = 0 THEN ZeroDivisionError
        ELSE IF 2 * r < m THEN q
        ELSE IF 2 * r > m THEN q + 1
        ELSE IF q % 2 = 0 THEN q ELSE q + 1

\* round(n / m * 100, 1) in tenths of a percent.
PctTenths(n, m) ==
    LET q == (1000 * n) \div m
        r == (1000 * n) % m
    IN  IF m = 0 THEN ZeroDivisionError
        ELSE IF 2 * r < m THEN q
        ELSE IF 2 * r > m THEN q + 1
        ELSE IF q % 2 = 0 THEN q ELSE q + 1

\* fsr.get('parent_safety_goal', fsr.get('parent_sg', []))
ParentOf(fsr) ==
    IF fsr.parent_safety_goal.tag # "absent" THEN fsr.parent_safety_goal
    ELSE IF fsr.parent_sg.tag # "absent" THEN fsr.parent_sg
    ELSE PList(<<>>)

\* What one FSR adds to goals_with_fsrs: a list updates the set with its
\* items, a non-empty str is added, anything else adds nothing.
ParentIds(fsr) ==
    LET parent_sg == ParentOf(fsr)
    IN  IF parent_sg.tag = "list" THEN Range(parent_sg.items)
        ELSE IF parent_sg.items[1] # "" THEN {parent_sg.items[1]}
        ELSE {}

goals_with_fsrs(fsrs_data) == UNION {ParentIds(fsrs_data[i]) : i \in 1..Len(fsrs_data)}

\* sum(1 for fsr in fsrs_data if fsr.get('allocated_to'))
HasAllocatedTo(fsr) == Truthy(fsr.allocated_to)

AllocatedCount(fsrs_data) == Len(FilterSeq(fsrs_data, HasAllocatedTo))

\* any(fsr.get('type', '').lower() == t for fsr in fsrs_data)
HasType(fsrs_data, t) ==
    \E i \in 1..Len(fsrs_data) : Lower(Get(fsrs_data[i], "type", "")) = t

\* The errors of both validators: the required record sets.
RequiredDataErrors(goals_data, fsrs_data) ==
    (IF goals_data = <<>> THEN <<"No safety goals available">> ELSE <<>>)
    \o (IF fsrs_data = <<>> THEN <<"No FSRs available">> ELSE <<>>)

\* The warnings FSCWordGenerator.validate_data appends, in order.
WordWarnings(goals_data, fsrs_data) ==
    LET covered == Cardinality(goals_with_fsrs(fsrs_data))
        allocated == AllocatedCount(fsrs_data)
    IN  (IF covered < Len(goals_data)
         THEN <<[w |-> "Only n/m safety goals have FSRs", n |-> covered,
                 m |-> Len(goals_data), pct |-> PctRound(covered, Len(goals_data))]>>
         ELSE <<>>)
        \o (IF allocated < Len(fsrs_data) /\ 2 * allocated < Len(fsrs_data)
            THEN <<[w |-> "Only n/m FSRs allocated", n |-> allocated,
                    m |-> Len(fsrs_data), pct |-> PctRound(allocated, Len(fsrs_data))]>>
            ELSE <<>>)
        \o (IF ~HasType(fsrs_data, "detection")
            THEN <<[w |-> "No detection requirements defined"]>> ELSE <<>>)
        \o (IF ~HasType(fsrs_data, "reaction")
            THEN <<[w |-> "No reaction requirements defined"]>> ELSE <<>>)

\* FSCWordGenerator.validate_data without the return on errors.
FSCWordGenerator_validate_data_NoReturn(goals_data, fsrs_data) ==
    LET errors == RequiredDataErrors(goals_data, fsrs_data)
    IN  [is_valid |-> errors = <<>>,
         warnings |-> WordWarnings(goals_data, fsrs_data),
         errors |-> errors]

\* FSCWordGenerator.validate_data
FSCWordGenerator_validate_data(goals_data, fsrs_data) ==
    LET errors == RequiredDataErrors(goals_data, fsrs_data)
    IN  IF errors # <<>>
        THEN [is_valid |-> FALSE, warnings |-> <<>>, errors |-> errors]
        ELSE [is_valid |-> TRUE, warnings |-> WordWarnings(goals_data, fsrs_data),
              errors |-> errors]

\* fsr.get('id', fsr.get('fsr_id', ''))
FsrId(fsr) == Get(fsr, "id", Get(fsr, "fsr_id", ""))

\* A duplicate check that compares neighbours only.
HasDuplicateIds_Adjacent(fsrs_data) ==
    \E i \in 1..(Len(fsrs_data) - 1) : FsrId(fsrs_data[i]) = FsrId(fsrs_data[i + 1])

\* len(fsr_ids) != len(set(fsr_ids))
HasDuplicateIds(fsrs_data) ==
    Len(fsrs_data) # Cardinality({FsrId(fsrs_data[i]) : i \in 1..Len(fsrs_data)})

\* FSCExcelGenerator.validate_data
FSCExcelGenerator_validate_data(goals_data, fsrs_data) ==
    LET errors == RequiredDataErrors(goals_data, fsrs_data)
    IN  IF errors # <<>>
        THEN [is_valid |-> FALSE, warnings |-> <<>>, errors |-> errors]
        ELSE [is_valid |-> TRUE,
              warnings |-> IF HasDuplicateIds(fsrs_data)
                           THEN <<[w |-> "Duplicate FSR IDs detected"]>>
                           ELSE <<>>,
              errors |-> errors]

\* asil_dist: the count of FSRs per ASIL value, a dict keyed by the values
\* present.
AsilDistribution(fsrs_data) ==
    [a \in AsilSet(fsrs_data) |->
        Cardinality({i \in 1..Len(fsrs_data) : AsilOf(fsrs_data[i]) = a})]

\* fsr_by_type: the FSRs per lower-cased type, unknown types under 'other'.
FsrByType(fsrs_data) ==
    LET TypeKey(fsr) == LET t == Lower(Get(fsr, "type", "other"))
                        IN  IF t \in {"detection", "reaction", "indication", "other"}
                            THEN t ELSE "other"
    IN  [t \in {"detection", "reaction", "indication", "other"} |->
            Cardinality({i \in 1..Len(fsrs_data) : TypeKey(fsrs_data[i]) = t})]

\* FSCWordGenerator.calculate_statistics (percentages in tenths).
FSCWordGenerator_calculate_statistics(goals_data, fsrs_data, strategies_data) ==
    LET allocated == AllocatedCount(fsrs_data)
        covered == Cardinality(goals_with_fsrs(fsrs_data))
    IN  [total_goals |-> Len(goals_data),
         total_fsrs |-> Len(fsrs_data),
         fsr_by_type |-> FsrByType(fsrs_data),
         total_strategies |-> strategies_data,
         estimated_pages |-> Len(goals_data) * 3 + Len(fsrs_data) \div 2 + 15,
         asil_distribution |-> AsilDistribution(fsrs_data),
         allocated_fsrs |-> allocated,
         allocation_pct |-> IF fsrs_data # <<>>
                            THEN PctTenths(allocated, Len(fsrs_data)) ELSE 0,
         goals_with_fsrs |-> covered,
         coverage_pct |-> IF goals_data # <<>>
                          THEN PctTenths(covered, Len(goals_data)) ELSE 0]

\* FSCExcelGenerator.calculate_statistics
FSCExcelGenerator_calculate_statistics(goals_data, fsrs_data) ==
    LET allocated == AllocatedCount(fsrs_data)
    IN  [total_goals |-> Len(goals_data),
         total_fsrs |-> Len(fsrs_data),
         asil_distribution |-> AsilDistribution(fsrs_data),
         allocated_fsrs |-> allocated,
         unallocated_fsrs |-> Len(fsrs_data) - allocated]

\* FSCWordGenerator.check_completeness.  strategies_data is the number of
\* strategies; fsc_data tells which of its lists are non-empty.
FSCWordGenerator_check_completeness(goals_data, fsrs_data, strategies_data, fsc_data) ==
    LET allocated_count == AllocatedCount(fsrs_data)
        has_high_asil == \E i \in 1..Len(fsrs_data) :
                            Get(fsrs_data[i], "asil", "") \in {"C", "D"}
        covered == Cardinality(goals_with_fsrs(fsrs_data))
    IN  (IF strategies_data = 0
         THEN <<[w |-> "No safety strategies defined"]>>
         ELSE IF strategies_data < Len(goals_data)
         THEN <<[w |-> "Only n/m safety goals have strategies",
                 n |-> strategies_data, m |-> Len(goals_data)]>>
         ELSE <<>>)
        \o (IF allocated_count = 0
            THEN <<[w |-> "No FSRs allocated"]>>
            ELSE IF allocated_count < Len(fsrs_data)
            THEN <<[w |-> "Only n/m FSRs allocated", n |-> allocated_count,
                    m |-> Len(fsrs_data),
                    pct |-> PctRound(allocated_count, Len(fsrs_data))]>>
            ELSE <<>>)
        \o (IF ~fsc_data.validation
            THEN <<[w |-> "No validation criteria defined"]>> ELSE <<>>)
        \o (IF ~fsc_data.mechanisms
            THEN <<[w |-> "No safety mechanisms defined"]>> ELSE <<>>)
        \o (IF has_high_asil /\ ~fsc_data.decomposition
            THEN <<[w |-> "No ASIL decomposition applied"]>> ELSE <<>>)
        \o (IF covered < Len(goals_data)
            THEN <<[w |-> "n safety goal(s) have no FSRs",
                    n |-> Len(goals_data) - covered]>>
            ELSE <<>>)

\* sorted(stats['asil_distribution'].items()): the ASIL rows of the FSC
\* Statistics sheet and of the FSC tools' responses.
SortedAsilItems(asil_distribution) ==
    LET keys == SortedStrs(DOMAIN asil_distribution)
    IN  [i \in 1..Len(keys) |-> <<keys[i], asil_distribution[keys[i]]>>]

\* sorted(by_asil.items(), reverse=True): the ASIL summary of create_fsr_excel.
SortedAsilItemsReverse(by_asil) ==
    LET keys == SortedStrsReverse(DOMAIN by_asil)
    IN  [i \in 1..Len(keys) |-> <<keys[i], by_asil[keys[i]]>>]

\* FSCExcelGenerator._create_statistics_sheet
FSCExcelGenerator_create_statistics_sheet(goals_data, fsrs_data) ==
    LET stats == FSCExcelGenerator_calculate_statistics(goals_data, fsrs_data)
    IN  [total_goals |-> stats.total_goals,
         total_fsrs |-> stats.total_fsrs,
         asil_rows |-> SortedAsilItems(stats.asil_distribution),
         allocated_fsrs |-> stats.allocated_fsrs,
         unallocated_fsrs |-> stats.unallocated_fsrs]

\* fsr_ids[:10] of the FSC Allocation Matrix sheet.
FscIdLimit == 10

\* FSCExcelGenerator._create_allocation_sheet: one row per value of
\* fsr.get('allocated_to', 'Unallocated'), sorted; the FSR IDs cell is
\* ', '.join(fsr_ids[:10]) + ('...' if len(fsr_ids) > 10 else '').
FSCExcelGenerator_create_allocation_sheet(fsrs_data) ==
    LET ComponentOf(fsr) == Get(fsr, "allocated_to", "Unallocated")
        order == SortedStrs({ComponentOf(fsrs_data[i]) : i \in 1..Len(fsrs_data)})
        Row(component) ==
            LET Test(f) == ComponentOf(f) = component
                fsrs == FilterSeq(fsrs_data, Test)
                fsr_ids == [i \in 1..Len(fsrs) |-> FsrId(fsrs[i])]
            IN  [component |-> component,
                 fsr_count |-> Len(fsrs),
                 fsr_ids |-> [ids |-> Take(fsr_ids, FscIdLimit),
                              suffix |-> IF Len(fsr_ids) > FscIdLimit
                                         THEN <<"...">> ELSE <<>>]]
    IN  [i \in 1..Len(order) |-> Row(order[i])]

\* FSCExcelGenerator.generate: the workbook's sheets.
FSCExcelGenerator_generate(goals_data, fsrs_data) ==
    [sheets |-> <<"Safety Goals", "FSRs", "Allocation Matrix", "Traceability",
                  "Statistics">>,
     allocation |-> FSCExcelGenerator_create_allocation_sheet(fsrs_data),
     statistics |-> FSCExcelGenerator_create_statistics_sheet(goals_data, fsrs_data)]

(***************************************************************************)
(* FSR workbook: fsr_excel_generator.py                                    *)
(***************************************************************************)
\* A percentage cell: f"{x:.1f}%" has one decimal, the literal "0%" none.
PercentCell(tenths) == [tenths |-> tenths, decimals |-> 1]
ZeroPercent == [tenths |-> 0, decimals |-> 0]

\* _create_statistics_sheet without the tests  if total > 0.
fsr_excel_generator_create_statistics_sheet_Unguarded(fsrs_data) ==
    LET total == Len(fsrs_data)
        allocated == Len(FilterSeq(fsrs_data, IsAllocated))
        by_asil == AsilDistribution(fsrs_data)
        Present(a) == a \in DOMAIN by_asil
        levels == FilterSeq(AsilOrder, Present)
    IN  [total |-> total,
         allocated |-> allocated,
         allocated_pct |-> PercentCell(PctTenths(allocated, total)),
         unallocated |-> total - allocated,
         unallocated_pct |-> PercentCell(PctTenths(total - allocated, total)),
         asil_rows |-> [i \in 1..Len(levels) |->
                          [asil |-> levels[i], count |-> by_asil[levels[i]],
                           pct |-> PercentCell(PctTenths(by_asil[levels[i]], total))]],
         component_rows |-> [c \in Components(fsrs_data) |->
                          [count |-> Len(ComponentFsrs(fsrs_data, c)),
                           pct |-> PercentCell(PctTenths(
                                       Len(ComponentFsrs(fsrs_data, c)), total))]]]

\* fsr_excel_generator._create_statistics_sheet: the totals, the allocation
\* percentages and the distributions by ASIL and by component.
fsr_excel_generator_create_statistics_sheet(fsrs_data) ==
    LET total == Len(fsrs_data)
        allocated == Len(FilterSeq(fsrs_data, IsAllocated))
        by_asil == AsilDistribution(fsrs_data)
        Present(a) == a \in DOMAIN by_asil
        levels == FilterSeq(AsilOrder, Present)
    IN  [total |-> total,
         allocated |-> allocated,
         allocated_pct |-> IF total > 0
                           THEN PercentCell(PctTenths(allocated, total))
                           ELSE ZeroPercent,
         unallocated |-> total - allocated,
         unallocated_pct |-> IF total > 0
                             THEN PercentCell(PctTenths(total - allocated, total))
                             ELSE ZeroPercent,
         asil_rows |-> [i \in 1..Len(levels) |->
                          [asil |-> levels[i], count |-> by_asil[levels[i]],
                           pct |-> PercentCell(PctTenths(by_asil[levels[i]], total))]],
         component_rows |-> [c \in Components(fsrs_data) |->
                          [count |-> Len(ComponentFsrs(fsrs_data, c)),
                           pct |-> PercentCell(PctTenths(
                                       Len(ComponentFsrs(fsrs_data, c)), total))]]]

(***************************************************************************)
(* Document tools: code/tools/fsc_output_tools.py, fsc_file_tools.py,      *)
(* fsr_file_tools.py.  Each tool is a function of the working memory and   *)
(* of whether the document sink accepts the file (sink_ok).                *)
(***************************************************************************)
Min(a, b) == IF a < b THEN a ELSE b

\* validation_warnings[:3]
FirstThree(warnings) == SubSeq(warnings, 1, Min(3, Len(warnings)))

\* The text create_fsc_word_document returns on missing data: a plain string
\* literal, its braces are not interpolated.
InsufficientWordMessage ==
    <<"Insufficient FSC data for Word document generation.",
      "- Safety Goals: {'OK' if goals_data else 'Missing'}",
      "- FSRs: {'OK' if fsrs_data else 'Missing'}">>

\* The text create_fsc_excel returns on missing data: a plain string literal.
InsufficientExcelMessage ==
    <<"Insufficient FSC data for Excel generation.",
      "- Safety Goals: {'OK' if goals_data else 'Missing'}",
      "- FSRs: {'OK' if fsrs_data else 'Missing'}">>

\* The part of both Word tools after the check of the working memory:
\* validate, statistics, completeness, generate, save, response.
WordPipeline(kind, goals_data, fsrs_data, extras, sink_ok) ==
    LET v == FSCWordGenerator_validate_data(goals_data, fsrs_data)
        stats == FSCWordGenerator_calculate_statistics(goals_data, fsrs_data,
                                                       extras.strategies)
        completeness_warnings ==
            FSCWordGenerator_check_completeness(goals_data, fsrs_data,
                                                extras.strategies, extras)
    IN  IF ~v.is_valid
        THEN [kind |-> kind, status |-> "validation_failed",
              message |-> <<"FSC Data Validation Failed">> \o v.errors,
              calls |-> <<"validate_data">>]
        ELSE IF ~sink_ok
        THEN [kind |-> kind, status |-> "failed",
              message |-> <<"Failed to generate Word document.">>,
              calls |-> <<"validate_data", "calculate_statistics",
                          "check_completeness", "generate", "save">>]
        ELSE [kind |-> kind, status |-> "ok",
              calls |-> <<"validate_data", "calculate_statistics",
                          "check_completeness", "generate", "save">>,
              stats |-> stats,
              asil_lines |-> SortedAsilItems(stats.asil_distribution),
              completeness_warnings |-> completeness_warnings,
              validation_returned |-> v.warnings,
              data_quality_notices |-> FirstThree(v.warnings)]

\* fsc_output_tools.create_fsc_word_document
create_fsc_word_document_response(goals_data, fsrs_data, extras, sink_ok) ==
    IF goals_data = <<>> \/ fsrs_data = <<>>
    THEN [kind |-> "create_fsc_word_document", status |-> "insufficient",
          message |-> InsufficientWordMessage, calls |-> <<>>]
    ELSE WordPipeline("create_fsc_word_document", goals_data, fsrs_data, extras, sink_ok)

\* fsc_file_tools.create_word_document
create_word_document_response(goals_data, fsrs_data, extras, sink_ok) ==
    IF fsrs_data = <<>> /\ goals_data = <<>>
    THEN [kind |-> "create_word_document", status |-> "insufficient",
          message |-> <<"No FSC data available to export.">>, calls |-> <<>>]
    ELSE WordPipeline("create_word_document", goals_data, fsrs_data, extras, sink_ok)

\* The part of both Excel tools after the check of the working memory.
ExcelPipeline(kind, goals_data, fsrs_data, sink_ok) ==
    LET v == FSCExcelGenerator_validate_data(goals_data, fsrs_data)
        stats == FSCExcelGenerator_calculate_statistics(goals_data, fsrs_data)
    IN  IF ~v.is_valid
        THEN [kind |-> kind, status |-> "validation_failed",
              message |-> <<"Data validation failed: ">> \o v.errors,
              calls |-> <<"validate_data">>]
        ELSE IF ~sink_ok
        THEN [kind |-> kind, status |-> "failed",
              message |-> <<"Failed to generate Excel">>,
              calls |-> <<"validate_data", "calculate_statistics", "generate", "save">>]
        ELSE [kind |-> kind, status |-> "ok",
              calls |-> <<"validate_data", "calculate_statistics", "generate", "save">>,
              stats |-> stats,
              allocated_pct |-> PctRound(stats.allocated_fsrs, stats.total_fsrs),
              asil_lines |-> SortedAsilItems(stats.asil_distribution),
              wb |-> FSCExcelGenerator_generate(goals_data, fsrs_data),
              completeness_warnings |-> <<>>,
              validation_returned |-> v.warnings,
              data_quality_notices |-> <<>>]

\* fsc_output_tools.create_fsc_excel
create_fsc_excel_response(goals_data, fsrs_data, sink_ok) ==
    IF goals_data = <<>> \/ fsrs_data = <<>>
    THEN [kind |-> "create_fsc_excel", status |-> "insufficient",
          message |-> InsufficientExcelMessage, calls |-> <<>>]
    ELSE ExcelPipeline("create_fsc_excel", goals_data, fsrs_data, sink_ok)

\* fsc_file_tools.create_excel_file
create_excel_file_response(goals_data, fsrs_data, sink_ok) ==
    IF fsrs_data = <<>>
    THEN [kind |-> "create_excel_file", status |-> "insufficient",
          message |-> <<"No FSC data available to export.",
                        "Required: Derive FSRs first">>,
          calls |-> <<>>]
    ELSE ExcelPipeline("create_excel_file", goals_data, fsrs_data, sink_ok)

\* f.get('allocated_to') and f.get('allocated_to') != 'TBD'
IsAllocatedNotTbd(f) == Truthy(f.allocated_to) /\ f.allocated_to # "TBD"

\* fsr_file_tools.create_fsr_excel
create_fsr_excel_response(fsrs_data, sink_ok) ==
    IF fsrs_data = <<>>
    THEN [kind |-> "create_fsr_excel", status |-> "insufficient",
          message |-> <<"No FSR data available to export.">>]
    ELSE IF ~sink_ok
    THEN [kind |-> "create_fsr_excel", status |-> "failed",
          message |-> <<"Failed to generate Excel file.">>]
    ELSE [kind |-> "create_fsr_excel", status |-> "ok",
          total |-> Len(fsrs_data),
          allocated |-> Len(FilterSeq(fsrs_data, IsAllocatedNotTbd)),
          asil_lines |-> SortedAsilItemsReverse(AsilDistribution(fsrs_data))]

create_fsc_word_document ==
    /\ \E sink_ok \in BOOLEAN :
          response' = create_fsc_word_document_response(
                          fsc_safety_goals, fsc_functional_requirements,
                          fsc_extras, sink_ok)
    /\ UNCHANGED Memory

create_word_document ==
    /\ \E sink_ok \in BOOLEAN :
          response' = create_word_document_response(
                          fsc_safety_goals, fsc_functional_requirements,
                          fsc_extras, sink_ok)
    /\ UNCHANGED Memory

create_fsc_excel ==
    /\ \E sink_ok \in BOOLEAN :
          response' = create_fsc_excel_response(
                          fsc_safety_goals, fsc_functional_requirements, sink_ok)
    /\ UNCHANGED Memory

create_excel_file ==
    /\ \E sink_ok \in BOOLEAN :
          response' = create_excel_file_response(
                          fsc_safety_goals, fsc_functional_requirements, sink_ok)
    /\ UNCHANGED Memory

create_fsr_excel ==
    /\ \E sink_ok \in BOOLEAN :
          response' = create_fsr_excel_response(fsc_functional_requirements, sink_ok)
    /\ UNCHANGED Memory

(***************************************************************************)
(* Direct calls of the generators' methods on the working memory.          *)
(***************************************************************************)
validate_data_word ==
    /\ response' = [kind |-> "FSCWordGenerator.validate_data",
                    result |-> FSCWordGenerator_validate_data(
                                   fsc_safety_goals, fsc_functional_requirements)]
    /\ UNCHANGED Memory

validate_data_excel ==
    /\ response' = [kind |-> "FSCExcelGenerator.validate_data",
                    result |-> FSCExcelGenerator_validate_data(
                                   fsc_safety_goals, fsc_functional_requirements)]
    /\ UNCHANGED Memory

calculate_statistics ==
    /\ response' = [kind |-> "FSCWordGenerator.calculate_statistics",
                    result |-> FSCWordGenerator_calculate_statistics(
                                   fsc_safety_goals, fsc_functional_requirements,
                                   fsc_extras.strategies)]
    /\ UNCHANGED Memory

check_completeness ==
    /\ response' = [kind |-> "FSCWordGenerator.check_completeness",
                    result |-> FSCWordGenerator_check_completeness(
                                   fsc_safety_goals, fsc_functional_requirements,
                                   fsc_extras.strategies, fsc_extras)]
    /\ UNCHANGED Memory

create_statistics_sheet ==
    /\ response' = [kind |-> "fsr_excel_generator._create_statistics_sheet",
                    result |-> fsr_excel_generator_create_statistics_sheet(
                                   fsc_functional_requirements)]
    /\ UNCHANGED Memory

allocation_analysis_report ==
    /\ response' = [kind |-> "generate_allocation_analysis_report",
                    result |-> generate_allocation_analysis_report(
                                   fsc_functional_requirements)]
    /\ UNCHANGED Memory

(***************************************************************************)
(* Python str.  A str is the sequence of its characters; a run of          *)
(* characters that no operation of the parsers splits or searches inside   *)
(* (a word, a number) is written as one character.                         *)
(***************************************************************************)
\* s.startswith(prefix)
StartsWith(s, prefix) == Len(prefix) <= Len(s) /\ SubSeq(s, 1, Len(prefix)) = prefix

\* The first index from i on at which sub occurs in s, 0 if none.
RECURSIVE FindFrom(_, _, _)
FindFrom(s, sub, i) ==
    IF i + Len(sub) - 1 > Len(s) THEN 0
    ELSE IF \A k \in 1..Len(sub) : s[i + k - 1] = sub[k] THEN i
    ELSE FindFrom(s, sub, i + 1)

\* s.find(sub) + 1: the first index at which sub occurs in s, 0 if none.
Find(s, sub) == FindFrom(s, sub, 1)

\* sub in s
In(sub, s) == Find(s, sub) # 0

\* s.lstrip(chars)
RECURSIVE LStripChars(_, _)
LStripChars(s, chars) ==
    IF s # <<>> /\ Head(s) \in chars THEN LStripChars(Tail(s), chars) ELSE s

\* s.rstrip(chars)
RECURSIVE RStripChars(_, _)
RStripChars(s, chars) ==
    IF s # <<>> /\ s[Len(s)] \in chars
    THEN RStripChars(SubSeq(s, 1, Len(s) - 1), chars) ELSE s

\* s.strip()
Strip(s) == RStripChars(LStripChars(s, {" "}), {" "})

\* s.split(sep)
RECURSIVE Split(_, _)
Split(s, sep) ==
    LET i == Find(s, sep)
    IN  IF i = 0 THEN <<s>>
        ELSE <<SubSeq(s, 1, i - 1)>> \o Split(SubSeq(s, i + Len(sep), Len(s)), sep)

\* sep.join(parts)
RECURSIVE Join(_, _)
Join(parts, sep) ==
    IF parts = <<>> THEN <<>>
    ELSE IF Len(parts) = 1 THEN parts[1]
    ELSE parts[1] \o sep \o Join(Tail(parts), sep)

\* s.replace(old, new)
Replace(s, old, new) == Join(Split(s, old), new)

\* s.split(): the words between the runs of whitespace.
SplitWhitespace(s) ==
    LET NonEmpty(w) == w # <<>>
    IN  SelectSeq(Split(s, <<" ">>), NonEmpty)

\* c.lower() for the words of the model that have upper-case letters.
LowerChar(c) ==
    CASE c = "FSR" -> "fsr"
      [] c = "ID" -> "id"
      [] c = "Description" -> "description"
      [] c = "Allocation" -> "allocation"
      [] c = "Allocated" -> "allocated"
      [] c = "ASIL" -> "asil"
      [] c = "Linked" -> "linked"
      [] c = "SG" -> "sg"
      [] c = "Verification" -> "verification"
      [] c = "FTTI" -> "ftti"
      [] c = "Time" -> "time"
      [] c = "Constraint" -> "constraint"
      [] c = "Notes" -> "notes"
      [] c = "DET" -> "det"
      [] c = "CTL" -> "ctl"
      [] c = "ECU" -> "ecu"
      [] c = "D" -> "d"
      [] c = "B" -> "b"
      [] c = "Pass" -> "pass"
      [] c = "Fail" -> "fail"
      [] c = "Partial" -> "partial"
      [] OTHER -> c

\* s.lower()
LowerStr(s) == [i \in 1..Len(s) |-> LowerChar(s[i])]

(***************************************************************************)
(* Table parsers: fsr_formatter_xls.parse_fsrs_table_format and            *)
(* hara_dev_xls.parse_hara_table.  The text is the sequence of its lines.  *)
(***************************************************************************)
\* [cell.strip() for cell in line.split('|')]
StrippedCells(line) ==
    LET parts == Split(line, <<"|">>)
    IN  [i \in 1..Len(parts) |-> Strip(parts[i])]

\* The key of header_indices a header cell sets, "none" if it sets none.
HeaderField(cell) ==
    LET cell_lower == LowerStr(cell)
    IN  IF In(<<"fsr">>, cell_lower) /\ In(<<"id">>, cell_lower) THEN "id"
        ELSE IF In(<<"description">>, cell_lower) THEN "description"
        ELSE IF In(<<"allocation">>, cell_lower) THEN "allocation"
        ELSE IF In(<<"asil">>, cell_lower) /\ ~In(<<"linked">>, cell_lower) THEN "asil"
        ELSE IF In(<<"linked">>, cell_lower)
                \/ In(<<"safety", " ", "goal">>, cell_lower) THEN "linked_sg"
        ELSE IF In(<<"verification">>, cell_lower)
                \/ In(<<"validation">>, cell_lower) THEN "verification"
        ELSE IF In(<<"ftti">>, cell_lower) \/ In(<<"time">>, cell_lower) THEN "ftti"
        ELSE "none"

\* header_indices after the loop over the header cells: the 0-based index of
\* the last cell that sets each key.
HeaderIndices(cells) ==
    LET fields == [i \in 1..Len(cells) |-> HeaderField(cells[i])]
        keys == Range(fields) \ {"none"}
        Last(k) == CHOOSE i \in 1..Len(cells) :
                      /\ fields[i] = k
                      /\ \A j \in 1..Len(cells) : fields[j] = k => j <= i
    IN  [k \in keys |-> Last(k) - 1]

\* header_indices.get(key, default)
IndexOf(header_indices, key, default) ==
    IF header_indices # <<>> /\ key \in DOMAIN header_indices
    THEN header_indices[key] ELSE default

\* cells[idx] if idx < len(cells) else default
CellAt(cells, idx, default) == IF idx < Len(cells) THEN cells[idx + 1] ELSE default

TypeCodes == <<"AVD", "DET", "CTL", "SST", "TOL", "WRN", "TIM", "ARB">>

\* The first type code, in the order of the list, with '-code-' in the id;
\* 0 if there is none.
TypeCodeIndex(id) ==
    LET hits == {i \in 1..Len(TypeCodes) : In(<<"-", TypeCodes[i], "-">>, id)}
    IN  IF hits = {} THEN 0 ELSE CHOOSE i \in hits : \A j \in hits : i <= j

\* The record parse_fsrs_table_format builds from the cells of a data row.
TableRecord(cells, header_indices) ==
    LET id == CellAt(cells, IndexOf(header_indices, "id", 0), <<"Unknown">>)
    IN  [id |-> id,
         description |->
             CellAt(cells, IndexOf(header_indices, "description", 1), <<"N/A">>),
         allocated_to |->
             CellAt(cells, IndexOf(header_indices, "allocation", 2), <<"N/A">>),
         asil |-> CellAt(cells, IndexOf(header_indices, "asil", 3), <<"N/A">>),
         safety_goal_id |->
             CellAt(cells, IndexOf(header_indices, "linked_sg", 4), <<"N/A">>),
         verification_criteria |->
             CellAt(cells, IndexOf(header_indices, "verification", 5), <<"N/A">>),
         ftti |-> CellAt(cells, IndexOf(header_indices, "ftti", 6), <<"N/A">>),
         type |-> IF TypeCodeIndex(id) = 0 THEN <<"General">>
                  ELSE <<TypeCodes[TypeCodeIndex(id)]>>,
         operating_modes |-> <<"All modes">>,
         safety_goal |-> <<"See Linked SG">>,
         safe_state |-> <<>>]

\* TableStep that takes a row as data whether or not a header was found.
TableStep_AnyRow(st, line) ==
    LET line_stripped == Strip(line)
        NonEmpty(c) == c # <<>>
        cells == SelectSeq(StrippedCells(line_stripped), NonEmpty)
    IN  IF \/ line_stripped = <<>>
           \/ StartsWith(line_stripped, <<"|", "-", "-", "-">>)
           \/ StartsWith(line_stripped, <<"|", "-">>) THEN st
        ELSE IF ~In(<<"|">>, line_stripped) THEN st
        ELSE IF cells = <<>> THEN st
        ELSE IF ~st.header_found
                /\ \E i \in 1..Len(cells) : HeaderField(cells[i]) = "id"
        THEN [st EXCEPT !.header_found = TRUE,
                        !.header_indices = HeaderIndices(cells)]
        ELSE IF In(<<"FSR", "-">>, cells[1])
        THEN [st EXCEPT !.fsrs = Append(@, TableRecord(cells, st.header_indices))]
        ELSE st

\* One iteration of the loop of parse_fsrs_table_format.
TableStep(st, line) ==
    LET line_stripped == Strip(line)
        NonEmpty(c) == c # <<>>
        cells == SelectSeq(StrippedCells(line_stripped), NonEmpty)
    IN  IF \/ line_stripped = <<>>
           \/ StartsWith(line_stripped, <<"|", "-", "-", "-">>)
           \/ StartsWith(line_stripped, <<"|", "-">>) THEN st
        ELSE IF ~In(<<"|">>, line_stripped) THEN st
        ELSE IF cells = <<>> THEN st
        ELSE IF ~st.header_found
                /\ \E i \in 1..Len(cells) : HeaderField(cells[i]) = "id"
        THEN [st EXCEPT !.header_found = TRUE,
                        !.header_indices = HeaderIndices(cells)]
        ELSE IF st.header_found /\ In(<<"FSR", "-">>, cells[1])
        THEN [st EXCEPT !.fsrs = Append(@, TableRecord(cells, st.header_indices))]
        ELSE st

RECURSIVE TableLoop(_, _)
TableLoop(st, lines) ==
    IF lines = <<>> THEN st ELSE TableLoop(TableStep(st, Head(lines)), Tail(lines))

\* fsr_formatter_xls.parse_fsrs_table_format
parse_fsrs_table_format(text, safety_goals) ==
    TableLoop([header_found |-> FALSE, header_indices |-> <<>>, fsrs |-> <<>>],
              text).fsrs

\* The entry parse_hara_table builds from the cells of a data row.
HaraEntry(cells) ==
    [hazard_id |-> cells[1], function |-> cells[2], malfunction |-> cells[3],
     hazard |-> cells[4], situation |-> cells[5], severity |-> cells[6],
     exposure |-> cells[7], controllability |-> cells[8], asil |-> cells[9],
     safety_goal |-> cells[10],
     safe_state |-> IF Len(cells) > 10 THEN cells[11] ELSE <<"N/A">>,
     ftti |-> IF Len(cells) > 11 THEN cells[12] ELSE <<"N/A">>]

\* One iteration of the loop of parse_hara_table.
HaraStep(st, raw_line) ==
    LET line == Strip(raw_line)
        parts == StrippedCells(line)
        cells == SubSeq(parts, 2, Len(parts) - 1)
        first_three == SubSeq(cells, 1, IF Len(cells) < 3 THEN Len(cells) ELSE 3)
    IN  IF ~StartsWith(line, <<"|">>) THEN st
        ELSE IF cells = <<>> THEN st
        ELSE IF /\ \/ In(<<"Hazard", " ", "ID">>, cells[1])
                   \/ In(<<"ID">>, cells[1])
                   \/ In(<<"HAZ", "-">>, cells[1])
                /\ \/ In(<<"Hazard", " ", "ID">>, cells[1])
                   \/ In(<<"ID">>, cells[1])
        THEN [st EXCEPT !.in_table = TRUE, !.headers = cells]
        ELSE IF \A i \in 1..Len(first_three) : In(<<"-">>, first_three[i]) THEN st
        ELSE IF st.in_table /\ Len(cells) >= 10
        THEN [st EXCEPT !.hara_entries = Append(@, HaraEntry(cells))]
        ELSE st

RECURSIVE HaraLoop(_, _)
HaraLoop(st, lines) ==
    IF lines = <<>> THEN st ELSE HaraLoop(HaraStep(st, Head(lines)), Tail(lines))

\* hara_dev_xls.parse_hara_table
parse_hara_table(content) ==
    HaraLoop([in_table |-> FALSE, headers |-> <<>>, hara_entries |-> <<>>],
             content).hara_entries

(***************************************************************************)
(* Bold-label parser: fsr_formatter_xls.parse_fsrs_markdown_format.        *)
(* current_sg and current_fsr are None (<<>>) or one dict (<<d>>).         *)
(***************************************************************************)
\* type_mapping, in the order of its keys.
TypeNames ==
    <<"Fault Avoidance", "Fault Detection", "Fault Control", "Safe State Transition",
      "Fault Tolerance", "Warning/Indication", "Timing", "Arbitration">>

IsDigits(c) == c \in {"0", "1", "2", "5", "10", "001", "002"}

\* The digits that follow position i of s: the group (\d+) of a match.
RECURSIVE DigitRun(_, _)
DigitRun(s, i) ==
    IF i <= Len(s) /\ IsDigits(s[i]) THEN <<s[i]>> \o DigitRun(s, i + 1) ELSE <<>>

\* The identifier with its prefix corrected:
\*   if not fsr_id.startswith('FSR-SG-'):
\*       match = re.search(r'FSR-(\d+)', fsr_id)
\*       if match: fsr_id = fsr_id.replace(f'FSR-{sg_num}', f'FSR-{current_sg["id"]}')
WithGoalPrefix(fsr_id, sg) ==
    LET at == {i \in 1..(Len(fsr_id) - 2) :
                  fsr_id[i] = "FSR" /\ fsr_id[i + 1] = "-" /\ IsDigits(fsr_id[i + 2])}
        first == CHOOSE i \in at : \A j \in at : i <= j
    IN  IF StartsWith(fsr_id, <<"FSR", "-", "SG", "-">>) \/ at = {} THEN fsr_id
        ELSE Replace(fsr_id, <<"FSR", "-">> \o DigitRun(fsr_id, first + 2),
                     <<"FSR", "-">> \o sg.id)

\* The identifier a new-record marker line gives.
MarkerId(line_stripped, sg) ==
    LET bare == Strip(Replace(Replace(line_stripped, <<"*", "*">>, <<>>), <<"*">>, <<>>))
        fsr_id == IF In(<<" ">>, bare) THEN SplitWhitespace(bare)[1] ELSE bare
    IN  WithGoalPrefix(fsr_id, sg)

\* current_fsr as a new-record marker creates it.
NewRecord(fsr_id, sg) ==
    [id |-> fsr_id,
     safety_goal_id |-> sg.id,
     safety_goal |-> sg.description,
     asil |-> sg.asil,
     type |-> IF TypeCodeIndex(fsr_id) = 0 THEN <<"General">>
              ELSE <<TypeNames[TypeCodeIndex(fsr_id)]>>,
     description |-> <<>>,
     operating_modes |-> <<>>,
     allocated_to |-> <<>>,
     verification_criteria |-> <<>>,
     ftti |-> IF "ftti" \in DOMAIN sg THEN sg.ftti ELSE <<>>,
     safe_state |-> IF "safe_state" \in DOMAIN sg THEN sg.safe_state ELSE <<>>]

\* The chain  if 'description' in field_name ... elif ... : the field of the
\* record that a field name updates, "none" if it updates none.
MappedField(field_name) ==
    IF In(<<"description">>, field_name) THEN "description"
    ELSE IF In(<<"asil">>, field_name) /\ ~In(<<"linked">>, field_name) THEN "asil"
    ELSE IF In(<<"operating", " ", "mode">>, field_name) THEN "operating_modes"
    ELSE IF In(<<"allocation">>, field_name) \/ In(<<"allocated">>, field_name)
    THEN "allocated_to"
    ELSE IF In(<<"verification">>, field_name) \/ In(<<"validation">>, field_name)
    THEN "verification_criteria"
    ELSE IF In(<<"ftti">>, field_name) \/ In(<<"time", " ", "constraint">>, field_name)
    THEN "ftti"
    ELSE "none"

\* The part  if current_fsr and line_stripped:  of the loop, for a line that
\* is no new-record marker.
FieldStep(st, line_stripped) ==
    LET clean_line == Strip(LStripChars(LStripChars(line_stripped, {"-", " "}),
                                        {"*", " "}))
        parts == Split(clean_line, <<"*", "*">>)
        field_and_value == parts[2]
        pieces == Split(field_and_value, <<":">>)
        field_name == LowerStr(Strip(pieces[1]))
        field_value == Strip(Join(Tail(pieces), <<":">>))
        field == MappedField(field_name)
        fsr == st.current_fsr[1]
    IN  IF st.current_fsr = <<>> \/ line_stripped = <<>> THEN st
        ELSE IF In(<<"*", "*">>, clean_line) /\ In(<<":">>, clean_line)
        THEN IF Len(parts) >= 2 /\ In(<<":">>, field_and_value)
             THEN [st EXCEPT
                      !.accumulating_description = (field = "description"),
                      !.current_fsr =
                          IF field = "none" THEN @
                          ELSE <<[fsr EXCEPT ![field] = field_value]>>]
             ELSE st
        ELSE IF /\ st.accumulating_description
                /\ clean_line # <<>>
                /\ ~StartsWith(clean_line, <<"#">>)
                /\ fsr.description # <<>>
        THEN [st EXCEPT !.current_fsr =
                 <<[fsr EXCEPT !.description = @ \o <<" ">> \o clean_line]>>]
        ELSE st

\* True when the line is taken as a new-record marker.
IsRecordMarker(current_sg, line_stripped) ==
    /\ current_sg # <<>>
    /\ In(<<"FSR", "-">>, line_stripped)
    /\ \/ In(<<"*", "*", "FSR", "-">>, line_stripped)
       \/ StartsWith(line_stripped, <<"FSR", "-">>)

\* current_sg after the test for a safety goal section: the first goal of
\* the list whose id occurs in the line.
SectionGoal(current_sg, line_stripped, safety_goals) ==
    LET hits == {i \in 1..Len(safety_goals) :
                    /\ "id" \in DOMAIN safety_goals[i]
                    /\ In(safety_goals[i].id, line_stripped)}
    IN  IF /\ \/ In(<<"#", "#", " ", "FSRs for Safety Goal", ":">>, line_stripped)
              \/ In(<<"FSRs for Safety Goal", ":">>, line_stripped)
           /\ hits # {}
        THEN <<safety_goals[CHOOSE i \in hits : \A j \in hits : i <= j]>>
        ELSE current_sg

\* True when the test for a safety goal section raises KeyError:  sg['id']
\* is evaluated for a goal without the key 'id' before a goal matches.
SectionRaises(line_stripped, safety_goals) ==
    /\ \/ In(<<"#", "#", " ", "FSRs for Safety Goal", ":">>, line_stripped)
       \/ In(<<"FSRs for Safety Goal", ":">>, line_stripped)
    /\ \E i \in 1..Len(safety_goals) :
          /\ "id" \notin DOMAIN safety_goals[i]
          /\ \A j \in 1..(i - 1) :
                /\ "id" \in DOMAIN safety_goals[j]
                /\ ~In(safety_goals[j].id, line_stripped)

\* True when the dict of a new record raises KeyError:  current_sg['id'],
\* current_sg['description'], current_sg['asil'].
RecordRaises(sg) == ~({"id", "description", "asil"} \subseteq DOMAIN sg)

\* One iteration of the loop of parse_fsrs_markdown_format; after an
\* exception no iteration runs.
MarkdownStep(st, line, safety_goals) ==
    LET line_stripped == Strip(line)
        current_sg == SectionGoal(st.current_sg, line_stripped, safety_goals)
        st1 == [st EXCEPT !.current_sg = current_sg]
    IN  IF st.raised # "none" THEN st
        ELSE IF SectionRaises(line_stripped, safety_goals)
        THEN [st EXCEPT !.raised = "KeyError"]
        ELSE IF IsRecordMarker(current_sg, line_stripped) /\ RecordRaises(current_sg[1])
        THEN [st1 EXCEPT !.raised = "KeyError"]
        ELSE IF IsRecordMarker(current_sg, line_stripped)
        THEN [st1 EXCEPT
                 !.fsrs = IF st.current_fsr # <<>> THEN Append(@, st.current_fsr[1])
                          ELSE @,
                 !.current_fsr =
                     <<NewRecord(MarkerId(line_stripped, current_sg[1]), current_sg[1])>>,
                 !.accumulating_description = FALSE]
        ELSE FieldStep(st1, line_stripped)

RECURSIVE MarkdownLoop(_, _, _)
MarkdownLoop(st, lines, safety_goals) ==
    IF lines = <<>> THEN st
    ELSE MarkdownLoop(MarkdownStep(st, Head(lines), safety_goals), Tail(lines),
                      safety_goals)

\* The state of the parser after the loop over the lines of the text.
MarkdownRun(text, safety_goals) ==
    MarkdownLoop([current_sg |-> <<>>, current_fsr |-> <<>>,
                  accumulating_description |-> FALSE, fsrs |-> <<>>,
                  raised |-> "none"],
                 text, safety_goals)

\* The parser without  if current_fsr: fsrs.append(current_fsr)  after the loop.
parse_fsrs_markdown_format_NoFinalFlush(text, safety_goals) ==
    MarkdownRun(text, safety_goals).fsrs

\* fsr_formatter_xls.parse_fsrs_markdown_format: the list it returns (none
\* when it raises).
parse_fsrs_markdown_format(text, safety_goals) ==
    LET st == MarkdownRun(text, safety_goals)
    IN  IF st.raised # "none" THEN <<>>
        ELSE IF st.current_fsr # <<>> THEN Append(st.fsrs, st.current_fsr[1])
        ELSE st.fsrs

\* is_table_format: one of the first 50 lines holds both '|' and 'FSR-'.
IsTableFormat(text) ==
    LET first_lines == SubSeq(text, 1, IF Len(text) < 50 THEN Len(text) ELSE 50)
    IN  \E i \in 1..Len(first_lines) :
            In(<<"|">>, first_lines[i]) /\ In(<<"FSR", "-">>, first_lines[i])

\* fsr_formatter_xls.parse_fsrs: the table parser when one of the first 50
\* lines holds both '|' and 'FSR-', the bold-label parser otherwise.
parse_fsrs(text, safety_goals) ==
    IF IsTableFormat(text) THEN parse_fsrs_table_format(text, safety_goals)
    ELSE parse_fsrs_markdown_format(text, safety_goals)

\* The exception parse_fsrs raises, "none" if it returns.  The table parser
\* reads no key of a goal and indexes cells only below len(cells).
parse_fsrs_raised(text, safety_goals) ==
    IF IsTableFormat(text) THEN "none" ELSE MarkdownRun(text, safety_goals).raised

\* The calls of the parsers on the text.
apply_parse_fsrs ==
    /\ response' = [kind |-> "parse_fsrs",
                    result |-> parse_fsrs(llm_response, fsc_safety_goals),
                    raised |-> parse_fsrs_raised(llm_response, fsc_safety_goals)]
    /\ UNCHANGED Memory

apply_parse_fsrs_table_format ==
    /\ response' = [kind |-> "parse_fsrs_table_format",
                    result |-> parse_fsrs_table_format(llm_response, fsc_safety_goals)]
    /\ UNCHANGED Memory

apply_parse_hara_table ==
    /\ response' = [kind |-> "parse_hara_table",
                    result |-> parse_hara_table(llm_response)]
    /\ UNCHANGED Memory

(***************************************************************************)
(* The environment: other plugins store records in the working memory      *)
(* between two tool calls.  The records are drawn from bounded sets.       *)
(***************************************************************************)
AsilLevels == {"QM", "A", "B", "C", "D"}

\* FSRs that differ in ASIL and allocation target.
AllocationFsr(asil, allocated_to) ==
    Fsr("FSR-SG-001-DET-1", asil, allocated_to, "General", PStr("SG-001"), "SG-001")

AllocationFsrs ==
    {AllocationFsr(a, "ECU") : a \in AsilLevels}
    \cup {AllocationFsr(a, "BCM") : a \in {"QM", "B", "D"}}
    \cup {AllocationFsr("D", "TBD"), AllocationFsr("C", NONE),
          AllocationFsr(NONE, "ECU")}

\* FSRs that differ in identifier, parent goal, type and allocation.  The
\* ones without parent_safety_goal have the shape parse_fsrs produces.
ValidationFsrs ==
    {Fsr("FSR-SG-001-DET-1", "D", "ECU", "detection", PStr("SG-001"), NONE),
     Fsr("FSR-SG-001-DET-1", "B", NONE, "Reaction", PStr("SG-002"), NONE),
     Fsr("FSR-SG-002-CTL-1", "C", "", "General", PAbsent, "SG-001"),
     Fsr("FSR-SG-002-CTL-1", "QM", "TBD", "reaction", PStr("sg-001"), NONE),
     Fsr("FSR-SG-003-WRN-1", "A", "ECU", "Detection",
         PList(<<"SG-001", "SG-002">>), NONE),
     Fsr("FSR-SG-003-WRN-1", "A", NONE, "General", PStr("SG-999"), NONE)}

Goals == {Goal("SG-001", "D"), Goal("SG-002", "B"), Goal("SG-003", "A")}

\* fsc_safety_strategies (their number) and which of validation_criteria,
\* fsc_safety_mechanisms, fsc_asil_decompositions are non-empty.
NoExtras ==
    [strategies |-> 0, validation |-> FALSE, mechanisms |-> FALSE,
     decomposition |-> FALSE]

AllExtras ==
    [strategies |-> MaxGoals, validation |-> TRUE, mechanisms |-> TRUE,
     decomposition |-> TRUE]

StoreFsr(catalog) ==
    /\ Len(fsc_functional_requirements) < MaxFsrs
    /\ \E fsr \in catalog :
          fsc_functional_requirements' = Append(fsc_functional_requirements, fsr)
    /\ response' = NoResponse
    /\ UNCHANGED <<fsc_safety_goals, fsc_extras, llm_response, working_memory, review_items>>

StoreGoal ==
    /\ Len(fsc_safety_goals) < MaxGoals
    /\ \E goal \in Goals :
          /\ \A i \in 1..Len(fsc_safety_goals) : fsc_safety_goals[i].id # goal.id
          /\ fsc_safety_goals' = Append(fsc_safety_goals, goal)
    /\ response' = NoResponse
    /\ UNCHANGED <<fsc_functional_requirements, fsc_extras, llm_response, working_memory, review_items>>

EmptyMemory ==
    /\ fsc_functional_requirements = <<>>
    /\ fsc_safety_goals = <<>>
    /\ response = NoResponse
    /\ llm_response = <<>>
    /\ working_memory = NoKeys
    /\ review_items = <<>>

(***************************************************************************)
(* The texts handed to the parsers: an LLM response grows line by line.    *)
(***************************************************************************)
MaxTableLines == 3

\* The safety goals handed to parse_fsrs: dicts with id, description, asil.
ParserGoal(id, asil) ==
    [id |-> id, description |-> <<"goal">>, asil |-> asil, ftti |-> <<>>,
     safe_state |-> <<>>]

SG1 == <<"SG", "-", "1">>
SG10 == <<"SG", "-", "1", "0">>
SG2 == <<"SG", "-", "2">>

\* '| ' + ' | '.join(cells) + ' |'
TableLine(cells) == <<"|", " ">> \o Join(cells, <<" ", "|", " ">>) \o <<" ", "|">>

FsrHeaderCells ==
    <<<<"FSR", " ", "ID">>, <<"Description">>, <<"Allocation">>, <<"ASIL">>,
      <<"Linked", " ", "SG">>, <<"Verification">>, <<"FTTI">>>>

SeparatorLine == <<"|", "-", "-", "-", "|", "-", "-", "-", "|", "-", "-", "-", "|">>

FsrId1 == <<"FSR", "-", "SG", "-", "1", "-", "DET", "-", "1">>
FsrId2 == <<"FSR", "-", "SG", "-", "1", "-", "CTL", "-", "2">>

\* A complete row, and a row whose Allocation cell is empty and that ends
\* after its ASIL cell.
FsrRowCells ==
    {<<FsrId1, <<"detect">>, <<"ECU">>, <<"D">>, SG1, <<"test">>, <<"10">>>>,
     <<FsrId2, <<"control">>, <<>>, <<"B">>>>}

HaraHeaderCells ==
    <<<<"Hazard", " ", "ID">>, <<"Function">>, <<"Malfunction">>, <<"Hazard">>,
      <<"Situation">>, <<"S">>, <<"E">>, <<"C">>, <<"ASIL">>, <<"Safety Goal">>>>

\* A 10-column row and a 12-column row whose first three cells hold hyphens.
HaraRowCells ==
    {<<<<"HAZ", "-", "001">>, <<"Braking">>, <<"Loss">>, <<"collision">>,
       <<"highway">>, <<"S3">>, <<"E4">>, <<"C3">>, <<"D">>, SG1>>,
     <<<<"HAZ", "-", "002">>, <<"Anti", "-", "lock">>, <<"Non", "-", "activation">>,
       <<"skid">>, <<"wet">>, <<"S2">>, <<"E3">>, <<"C2">>, <<"B">>, SG2,
       <<"standstill">>, <<"10">>>>}

TableLines ==
    {TableLine(FsrHeaderCells), TableLine(HaraHeaderCells), SeparatorLine}
    \cup {TableLine(cells) : cells \in FsrRowCells}
    \cup {TableLine(cells) : cells \in HaraRowCells}

AppendTableLine ==
    /\ Len(llm_response) < MaxTableLines
    /\ \E line \in TableLines : llm_response' = Append(llm_response, line)
    /\ response' = NoResponse
    /\ UNCHANGED <<fsc_functional_requirements, fsc_safety_goals, fsc_extras, working_memory, review_items>>

InitTable ==
    /\ fsc_functional_requirements = <<>>
    /\ fsc_safety_goals = <<ParserGoal(SG1, <<"D">>)>>
    /\ fsc_extras = NoExtras
    /\ response = NoResponse
    /\ llm_response = <<>>
    /\ working_memory = NoKeys
    /\ review_items = <<>>

NextTable ==
    \/ AppendTableLine
    \/ apply_parse_fsrs
    \/ apply_parse_fsrs_table_format
    \/ apply_parse_hara_table

SpecTable == InitTable /\ [][NextTable]_vars

(***************************************************************************)
(* Bold-label texts: section markers, record markers and field lines.      *)
(***************************************************************************)
MaxMarkdownLines == 4

\* '## FSRs for Safety Goal: ' + id
SectionLine(id) == <<"#", "#", " ", "FSRs for Safety Goal", ":", " ">> \o id

\* '**' + id + '**'
BoldMarkerLine(id) == <<"*", "*">> \o id \o <<"*", "*">>

\* '- ' + id
ListMarkerLine(id) == <<"-", " ">> \o id

\* '1. **ASIL: B**': a line whose second '**'-separated part is 'ASIL: B'.
AsilLine == <<"1.", " ", "*", "*", "ASIL", ":", " ", "B", "*", "*">>

\* '**Description:** see **' + id + '**': a field line that refers to a record.
ReferenceLine(id) ==
    <<"*", "*", "Description", ":", "*", "*", " ", "see", " ">> \o BoldMarkerLine(id)

MarkdownLines ==
    {SectionLine(SG1), SectionLine(SG10), SectionLine(SG2),
     BoldMarkerLine(FsrId1), ListMarkerLine(FsrId2), AsilLine, ReferenceLine(FsrId2)}

\* The goal lists handed to parse_fsrs: SG-1 and SG-10 in both orders.
ParserGoalLists ==
    {<<ParserGoal(SG1, <<"D">>), ParserGoal(SG10, <<"C">>)>>,
     <<ParserGoal(SG10, <<"C">>), ParserGoal(SG1, <<"D">>)>>}

AppendMarkdownLine ==
    /\ Len(llm_response) < MaxMarkdownLines
    /\ \E line \in MarkdownLines : llm_response' = Append(llm_response, line)
    /\ response' = NoResponse
    /\ UNCHANGED <<fsc_functional_requirements, fsc_safety_goals, fsc_extras, working_memory, review_items>>

\* The text opens with the section marker of one of the goals.
InitMarkers ==
    /\ fsc_functional_requirements = <<>>
    /\ fsc_safety_goals \in ParserGoalLists
    /\ fsc_extras = NoExtras
    /\ response = NoResponse
    /\ llm_response \in {<<SectionLine(SG1)>>, <<SectionLine(SG10)>>}
    /\ working_memory = NoKeys
    /\ review_items = <<>>

NextMarkers ==
    \/ AppendMarkdownLine
    \/ apply_parse_fsrs

SpecMarkers == InitMarkers /\ [][NextMarkers]_vars

(***************************************************************************)
(* Field lines below one record marker.                                    *)
(***************************************************************************)
MaxFieldLines == 2

\* '- **Label:** value'
FieldLine(label, value) == <<"-", " ", "*", "*">> \o label \o <<":", "*", "*", " ">> \o value

\* '1. **Label: value**'
NumberedLine(label, value) ==
    <<"1.", " ", "*", "*">> \o label \o <<":", " ">> \o value \o <<"*", "*">>

FieldLabels ==
    {<<"ASIL">>, <<"Linked", " ", "ASIL">>, <<"Notes">>,
     <<"Verification", " ", "Time", " ", "Constraint">>}

FieldLines ==
    {FieldLine(label, <<"B">>) : label \in FieldLabels}
    \cup {NumberedLine(label, <<"B">>) : label \in FieldLabels}

AppendFieldLine ==
    /\ Len(llm_response) < 2 + MaxFieldLines
    /\ \E line \in FieldLines : llm_response' = Append(llm_response, line)
    /\ response' = NoResponse
    /\ UNCHANGED <<fsc_functional_requirements, fsc_safety_goals, fsc_extras, working_memory, review_items>>

\* The text opens with a section marker and a record marker.
InitFields ==
    /\ fsc_functional_requirements = <<>>
    /\ fsc_safety_goals = <<ParserGoal(SG1, <<"D">>)>>
    /\ fsc_extras = NoExtras
    /\ response = NoResponse
    /\ llm_response = <<SectionLine(SG1), BoldMarkerLine(FsrId1)>>
    /\ working_memory = NoKeys
    /\ review_items = <<>>

NextFields ==
    \/ AppendFieldLine
    \/ apply_parse_fsrs

SpecFields == InitFields /\ [][NextFields]_vars

(***************************************************************************)
(* Field lines, paragraphs and blank lines below a record marker.          *)
(***************************************************************************)
MaxDescriptionLines == 3

\* A line without field pattern, and a blank line.
ParagraphLine == <<"more", " ", "text">>
BlankLine == <<>>

DescriptionLines ==
    {FieldLine(<<"Description">>, <<"detect">>),
     NumberedLine(<<"Description">>, <<"detect">>),
     FieldLine(<<"ASIL">>, <<"B">>), AsilLine,
     BoldMarkerLine(FsrId2), ParagraphLine, BlankLine}

AppendDescriptionLine ==
    /\ Len(llm_response) < 2 + MaxDescriptionLines
    /\ \E line \in DescriptionLines : llm_response' = Append(llm_response, line)
    /\ response' = NoResponse
    /\ UNCHANGED <<fsc_functional_requirements, fsc_safety_goals, fsc_extras, working_memory, review_items>>

NextDescription ==
    \/ AppendDescriptionLine
    \/ apply_parse_fsrs

SpecDescription == InitFields /\ [][NextDescription]_vars

(***************************************************************************)
(* Identifiers with and without type code, as record markers or table rows.*)
(***************************************************************************)
MaxTypeLines == 2

\* 'FSR-SG-1-' + infix + '1'
TypedId(infix) == <<"FSR", "-", "SG", "-", "1", "-">> \o infix \o <<"1">>

\* One infix per type code, one with two codes, one with an unknown code and
\* one without code.
TypedIds ==
    {TypedId(<<TypeCodes[i], "-">>) : i \in 1..Len(TypeCodes)}
    \cup {TypedId(<<"CTL", "-", "DET", "-">>), TypedId(<<"XYZ", "-">>), TypedId(<<>>)}

\* A line for an identifier in the format of the first line of the text.
AppendTypedLine ==
    /\ Len(llm_response) < 1 + MaxTypeLines
    /\ \E id \in TypedIds :
          llm_response' =
              Append(llm_response,
                     IF In(<<"|">>, llm_response[1])
                     THEN TableLine(<<id, <<"detect">>>>)
                     ELSE BoldMarkerLine(id))
    /\ response' = NoResponse
    /\ UNCHANGED <<fsc_functional_requirements, fsc_safety_goals, fsc_extras, working_memory, review_items>>

\* The text opens with a section marker or with a table header.
InitTypes ==
    /\ fsc_functional_requirements = <<>>
    /\ fsc_safety_goals = <<ParserGoal(SG1, <<"D">>)>>
    /\ fsc_extras = NoExtras
    /\ response = NoResponse
    /\ llm_response \in {<<SectionLine(SG1)>>, <<TableLine(FsrHeaderCells)>>}
    /\ working_memory = NoKeys
    /\ review_items = <<>>

NextTypes ==
    \/ AppendTypedLine
    \/ apply_parse_fsrs

SpecTypes == InitTypes /\ [][NextTypes]_vars

(***************************************************************************)
(* Safety goals as the session store holds them: with the keys the       *)
(* parser reads, without 'description', and with 'sg_id' and 'statement'   *)
(* in place of 'id' and 'description'.                                     *)
(***************************************************************************)
MaxStoreLines == 3

StoredGoals ==
    {ParserGoal(SG1, <<"D">>),
     [id |-> SG1, asil |-> <<"D">>],
     [sg_id |-> SG1, statement |-> <<"goal">>, asil |-> <<"D">>]}

StoredGoalLists ==
    {<<g>> : g \in StoredGoals} \cup {<<g, h>> : g \in StoredGoals, h \in StoredGoals}

StoreLines ==
    {SectionLine(SG1), BoldMarkerLine(FsrId1), AsilLine, ParagraphLine}

AppendStoreLine ==
    /\ Len(llm_response) < MaxStoreLines
    /\ \E line \in StoreLines : llm_response' = Append(llm_response, line)
    /\ response' = NoResponse
    /\ UNCHANGED <<fsc_functional_requirements, fsc_safety_goals, fsc_extras, working_memory, review_items>>

InitStore ==
    /\ fsc_functional_requirements = <<>>
    /\ fsc_safety_goals \in StoredGoalLists
    /\ fsc_extras = NoExtras
    /\ response = NoResponse
    /\ llm_response = <<>>
    /\ working_memory = NoKeys
    /\ review_items = <<>>

NextStore ==
    \/ AppendStoreLine
    \/ apply_parse_fsrs

SpecStore == InitStore /\ [][NextStore]_vars

(***************************************************************************)
(* File names: each document tool reads system_name from the working      *)
(* memory and builds the name of the file it writes.                       *)
(***************************************************************************)
MaxNameLen == 2

\* The characters of a system name: a letter, a digit, a space, a path
\* separator and the punctuation the sanitizer keeps.
NameChars == {"a", "1", " ", "/", "_", "."}

SystemNames == UNION {[1..n -> NameChars] : n \in 1..MaxNameLen}

\* c.isalnum()
IsAlnum(c) == c \in {"a", "1", "System"}

\* "".join(c if c.isalnum() or c in "._- " else "_" for c in system_name)
\*    .replace(" ", "_")
SafeName(system_name) ==
    LET kept == [i \in 1..Len(system_name) |->
                    IF IsAlnum(system_name[i]) \/ system_name[i] \in {".", "_", "-", " "}
                    THEN system_name[i] ELSE "_"]
    IN  [i \in 1..Len(kept) |-> IF kept[i] = " " THEN "_" ELSE kept[i]]

\* system_name.replace(' ', '_')
SpacesReplaced(system_name) ==
    [i \in 1..Len(system_name) |-> IF system_name[i] = " " THEN "_" ELSE system_name[i]]

\* f"{kind}_{name}_{timestamp}{ext}"
FileName(kind, name, ext) == <<kind, "_">> \o name \o <<"_", "timestamp", ext>>

\* cat.working_memory.get("system_name", "System")
SystemName ==
    IF "system_name" \in DOMAIN working_memory THEN working_memory.system_name
    ELSE <<"System">>

FileNameResponse(tool, filename) ==
    [kind |-> "filename", tool |-> tool, system_name |-> SystemName,
     filename |-> filename]

\* fsc_file_tools.create_word_document
create_word_document_filename ==
    /\ response' = FileNameResponse("fsc_file_tools.create_word_document",
                                    FileName("FSC", SafeName(SystemName), ".docx"))
    /\ UNCHANGED Memory

\* hook_formatter.create_fsr_excel
create_fsr_excel_filename ==
    /\ response' = FileNameResponse("hook_formatter.create_fsr_excel",
                                    FileName("FSR", SpacesReplaced(SystemName), ".xlsx"))
    /\ UNCHANGED Memory

\* hook_formatter.create_allocation_excel
create_allocation_excel_filename ==
    /\ response' = FileNameResponse("hook_formatter.create_allocation_excel",
                                    FileName("Allocation", SpacesReplaced(SystemName),
                                             ".xlsx"))
    /\ UNCHANGED Memory

\* hook_formatter.create_allocation_report
create_allocation_report_filename ==
    /\ response' = FileNameResponse("hook_formatter.create_allocation_report",
                                    FileName("Allocation_Report",
                                             SpacesReplaced(SystemName), ".txt"))
    /\ UNCHANGED Memory

\* Another plugin stores the name of the system.
StoreSystemName ==
    /\ \E system_name \in SystemNames :
          working_memory' = Put(working_memory, "system_name", system_name)
    /\ response' = NoResponse
    /\ UNCHANGED <<fsc_functional_requirements, fsc_safety_goals, fsc_extras,
                   llm_response, review_items>>

InitNames == EmptyMemory /\ fsc_extras = NoExtras

NextNames ==
    \/ StoreSystemName
    \/ create_word_document_filename
    \/ create_fsr_excel_filename
    \/ create_allocation_excel_filename
    \/ create_allocation_report_filename

SpecNames == InitNames /\ [][NextNames]_vars

(***************************************************************************)
(* Review workbook: item_definition_rev_xls.py                             *)
(***************************************************************************)
MaxReviews == 2

\* The fill apply_status_formatting gives the status cell of a row of the
\* Review Results sheet: green "pass", red "fail", yellow "partial", or none.
apply_status_formatting(status_value) ==
    LET status_lower == LowerStr(status_value)
    IN  IF In(<<"pass">>, status_lower) /\ ~In(<<"fail">>, status_lower) THEN "pass"
        ELSE IF In(<<"fail">>, status_lower) THEN "fail"
        ELSE IF In(<<"partial">>, status_lower) THEN "partial"
        ELSE "none"

CountIf(reviews, Test(_)) == Cardinality({i \in 1..Len(reviews) : Test(reviews[i])})

\* passed_items, failed_items, partial_items of create_summary_sheet
create_summary_sheet(reviews) ==
    LET Passed(r) == LowerStr(r.status) = <<"pass">>
        Failed(r) == LowerStr(r.status) = <<"fail">>
        Partial(r) == In(<<"partial">>, LowerStr(r.status))
    IN  [total |-> Len(reviews), pass |-> CountIf(reviews, Passed),
         fail |-> CountIf(reviews, Failed), partial |-> CountIf(reviews, Partial)]

\* category_stats of create_category_breakdown_sheet
create_category_breakdown_sheet(reviews) ==
    LET categories == {reviews[i].category : i \in 1..Len(reviews)}
    IN  [category \in categories |->
            LET InCategory(r) == r.category = category
                Pass(r) == InCategory(r) /\ apply_status_formatting(r.status) = "pass"
                Fail(r) == InCategory(r) /\ apply_status_formatting(r.status) = "fail"
                Partial(r) == InCategory(r) /\ apply_status_formatting(r.status) = "partial"
            IN  [total |-> CountIf(reviews, InCategory), pass |-> CountIf(reviews, Pass),
                 fail |-> CountIf(reviews, Fail), partial |-> CountIf(reviews, Partial)]]

\* The status values of the review items and the review items.
Statuses ==
    {<<"Pass">>, <<"Fail">>, <<"Partial">>, <<"Partial", " ", "Pass">>, <<"N/A">>, <<>>}

Reviews ==
    {[category |-> c, status |-> st] :
        c \in {"Item Definition", "General Requirements"}, st \in Statuses}

\* item_definition_rev_xls.create_review_excel: the three sheets.
create_review_excel ==
    /\ response' =
          [kind |-> "create_review_excel",
           reviews |-> review_items,
           results |-> [i \in 1..Len(review_items) |->
                           apply_status_formatting(review_items[i].status)],
           summary |-> create_summary_sheet(review_items),
           breakdown |-> create_category_breakdown_sheet(review_items)]
    /\ UNCHANGED Memory

\* One more review item is parsed from the review text.
AppendReview ==
    /\ Len(review_items) < MaxReviews
    /\ \E review \in Reviews : review_items' = Append(review_items, review)
    /\ response' = NoResponse
    /\ UNCHANGED <<fsc_functional_requirements, fsc_safety_goals, fsc_extras,
                   llm_response, working_memory>>

NextReview ==
    \/ AppendReview
    \/ create_review_excel

SpecReview == InitNames /\ [][NextReview]_vars

(***************************************************************************)
(* The smart-formatting hook of code/hooks/output_formatter.py.  A message *)
(* content is held as what the hook can observe of it: the number of its   *)
(* non-blank characters, the number of blanks between them (leading and    *)
(* trailing blanks are what strip() removes), the searched texts it        *)
(* contains, and the guidance footer appended to it.                       *)
(***************************************************************************)
MinContentLength == 50

Content(non_blank, inner_blank, marks) ==
    [non_blank |-> non_blank, inner_blank |-> inner_blank, marks |-> marks,
     footer |-> <<>>]

\* len(content.strip())
StrippedLength(content) == content.non_blank + content.inner_blank

\* The searched texts; a pictograph is written as its name between colons.
TableSeparator == "|---|"
FsrTableHeader == "FSR-ID | Type | ASIL"
NextStepsHeading == "### :rocket: Next Steps"
NextStepsLabel == "**Next Steps:**"

Indicators ==
    <<TableSeparator, "## :clipboard:", "### :bar_chart:", "*ISO 26262",
      ":check_mark: **Successfully", FsrTableHeader>>

is_already_formatted(text) ==
    \E i \in DOMAIN Indicators : Indicators[i] \in text.marks

OPERATION_TO_FORMATTER ==
    ("strategy_development" :> "safety_strategies")
    @@ ("strategy_generation" :> "safety_strategies")
    @@ ("strategies_developed" :> "safety_strategies")
    @@ ("fsr_derivation" :> "fsrs")
    @@ ("fsr_generation" :> "fsrs")
    @@ ("fsrs_derived" :> "fsrs")
    @@ ("hara_loaded" :> "safety_goals")
    @@ ("safety_goals_loaded" :> "safety_goals")
    @@ ("goals_derived" :> "safety_goals")
    @@ ("fsr_allocation" :> "allocation")
    @@ ("allocation_complete" :> "allocation")
    @@ ("fsrs_allocated" :> "allocation")
    @@ ("mechanism_identification" :> "mechanisms")
    @@ ("mechanisms_identified" :> "mechanisms")
    @@ ("validation_criteria_specification" :> "validation")
    @@ ("validation_criteria_specified" :> "validation")
    @@ ("fsc_verification" :> "verification")
    @@ ("fsc_verified" :> "verification")

SKIP_FORMATTING_OPS == <<"fsr_derivation", "fsr_generation">>

\* cat.working_memory.get(key, default)
MemoryGet(memory, key, default) ==
    IF key \in DOMAIN memory THEN memory[key] ELSE default

get_formatter_type(memory) ==
    LET needs_formatting == MemoryGet(memory, "needs_formatting", FALSE)
        last_operation == MemoryGet(memory, "last_operation", NONE)
    IN  IF ~needs_formatting THEN NONE
        ELSE IF ~Truthy(last_operation) THEN NONE
        ELSE IF \E i \in DOMAIN SKIP_FORMATTING_OPS :
                    SKIP_FORMATTING_OPS[i] = last_operation THEN NONE
        ELSE IF last_operation \in DOMAIN OPERATION_TO_FORMATTER
             THEN OPERATION_TO_FORMATTER[last_operation]
        ELSE NONE

cleanup_formatting_state_KeepsFlag(memory) == memory

cleanup_formatting_state(memory) ==
    IF "needs_formatting" \in DOMAIN memory
    THEN Del(memory, "needs_formatting")
    ELSE memory

\* The formatters that send a prompt to the language model.
LlmFormatters ==
    {"safety_strategies", "safety_goals", "allocation", "mechanisms",
     "validation", "verification"}

\* The language model of the cat: it answers with a text, raises, or the
\* cat has no language model at all.
LlmAnswer(text) == [state |-> "answers", text |-> text]
LlmRaises == [state |-> "raises"]
LlmMissing == [state |-> "missing"]

\* "\n\n" + formatted, or the content itself when the call raises.
LlmFormatted(content, llm) ==
    IF llm.state = "answers"
    THEN [content |-> llm.text, llm_called |-> TRUE,
          format_fsrs_called |-> FALSE]
    ELSE [content |-> content, llm_called |-> TRUE,
          format_fsrs_called |-> FALSE]

format_fsrs(content) ==
    [content |-> content, llm_called |-> FALSE, format_fsrs_called |-> TRUE]

format_content(content, formatter_type, llm) ==
    IF formatter_type \in LlmFormatters THEN LlmFormatted(content, llm)
    ELSE IF formatter_type = "fsrs" THEN format_fsrs(content)
    ELSE [content |-> content, llm_called |-> FALSE,
          format_fsrs_called |-> FALSE]

NEXT_STEPS ==
    ("hara_loaded" :>
        [next |-> "develop safety strategies for all goals",
         alternative |-> "develop safety strategy for SG-001"])
    @@ ("strategies_developed" :>
        [next |-> "derive FSRs for all goals",
         export |-> "export strategies to excel"])
    @@ ("fsrs_derived" :>
        [next |-> "allocate all FSRs", export |-> "export FSRs to excel"])
    @@ ("fsrs_allocated" :>
        [next |-> "identify safety mechanisms",
         export |-> "export allocation matrix"])
    @@ ("mechanisms_identified" :>
        [next |-> "specify validation criteria",
         export |-> "export mechanisms to excel"])
    @@ ("validation_criteria_specified" :>
        [next |-> "verify FSC", export |-> "export validation criteria"])
    @@ ("fsc_verified" :>
        [next |-> "generate FSC document",
         alternative |-> "create FSC excel"])

add_guidance(content, memory) ==
    LET stage == MemoryGet(memory, "fsc_stage", NONE)
    IN  IF ~Truthy(stage) \/ stage \notin DOMAIN NEXT_STEPS
        THEN content
        ELSE IF NextStepsHeading \in content.marks
                \/ NextStepsLabel \in content.marks
        THEN content
        ELSE LET guidance == NEXT_STEPS[stage]
             IN  [content EXCEPT
                    !.marks = @ \cup {NextStepsHeading},
                    !.footer =
                        <<<<"Recommended", guidance.next>>>>
                        \o (IF "alternative" \in DOMAIN guidance
                            THEN <<<<"Alternative", guidance.alternative>>>>
                            ELSE <<>>)
                        \o (IF "export" \in DOMAIN guidance
                            THEN <<<<"Export", guidance.export>>>>
                            ELSE <<>>)]

HookResponse(message, content, path, formatter_type, formatted, memory) ==
    [kind |-> "hook", message |-> message, content |-> content,
     path |-> path, formatter_type |-> formatter_type,
     llm_called |-> formatted.llm_called,
     format_fsrs_called |-> formatted.format_fsrs_called,
     memory_before |-> memory]

NotFormatted(content) ==
    [content |-> content, llm_called |-> FALSE, format_fsrs_called |-> FALSE]

\* The hook on one message: the pair of the working memory it leaves and
\* of what it did.
HandleMessage(message, llm, memory) ==
    LET formatter_type == get_formatter_type(memory)
        formatted == format_content(message, formatter_type, llm)
    IN  IF StrippedLength(message) = 0
           \/ StrippedLength(message) < MinContentLength
        THEN <<memory,
               HookResponse(message, message, "short", NONE,
                            NotFormatted(message), memory)>>
        ELSE IF is_already_formatted(message)
        THEN <<cleanup_formatting_state(memory),
               HookResponse(message, add_guidance(message, memory),
                            "already_formatted", NONE,
                            NotFormatted(message), memory)>>
        ELSE IF formatter_type # NONE /\ llm.state = "missing"
        THEN <<cleanup_formatting_state(memory),
               HookResponse(message, add_guidance(message, memory),
                            "exception", formatter_type,
                            NotFormatted(message), memory)>>
        ELSE IF formatter_type # NONE
        THEN <<cleanup_formatting_state(memory),
               HookResponse(message,
                            add_guidance(formatted.content, memory),
                            "formatted", formatter_type, formatted, memory)>>
        ELSE <<cleanup_formatting_state(memory),
               HookResponse(message, add_guidance(message, memory),
                            "no_formatter", NONE,
                            NotFormatted(message), memory)>>

Messages ==
    {Content(non_blank, inner_blank, marks) :
        non_blank \in {0, 45, 50}, inner_blank \in {0, 5},
        marks \in {{}, {TableSeparator}, {NextStepsLabel}}}

LlmOutcomes ==
    {LlmAnswer(Content(60, 10, {TableSeparator})),
     LlmAnswer(Content(60, 10, {TableSeparator, NextStepsLabel})),
     LlmRaises, LlmMissing}

before_cat_sends_message ==
    /\ \E message \in Messages, llm \in LlmOutcomes :
          LET handled == HandleMessage(message, llm, working_memory)
          IN  /\ working_memory' = handled[1]
              /\ response' = handled[2]
    /\ UNCHANGED <<fsc_functional_requirements, fsc_safety_goals, fsc_extras,
                   llm_response, review_items>>

\* The operations a workflow tool records, with one no formatter is
\* listed for and the empty one.
Operations == DOMAIN OPERATION_TO_FORMATTER \cup {"chat", ""}

Stages == {"fsrs_derived", "fsc_verified", "unknown_stage"}

\* A workflow tool records its operation and whether its output is to be
\* formatted.
StoreOperation ==
    /\ \E operation \in Operations, needs_formatting \in BOOLEAN :
          working_memory' =
              Put(Put(working_memory, "last_operation", operation),
                  "needs_formatting", needs_formatting)
    /\ response' = NoResponse
    /\ UNCHANGED <<fsc_functional_requirements, fsc_safety_goals, fsc_extras,
                   llm_response, review_items>>

\* A workflow tool sets the flag alone.
StoreFlag ==
    /\ working_memory' = Put(working_memory, "needs_formatting", TRUE)
    /\ response' = NoResponse
    /\ UNCHANGED <<fsc_functional_requirements, fsc_safety_goals, fsc_extras,
                   llm_response, review_items>>

StoreStage ==
    /\ \E stage \in Stages :
          working_memory' = Put(working_memory, "fsc_stage", stage)
    /\ response' = NoResponse
    /\ UNCHANGED <<fsc_functional_requirements, fsc_safety_goals, fsc_extras,
                   llm_response, review_items>>

NextHook ==
    \/ StoreOperation
    \/ StoreFlag
    \/ StoreStage
    \/ before_cat_sends_message

SpecHook == InitNames /\ [][NextHook]_vars

(***************************************************************************)
(* The HARA workbook of hara_dev_xls.py.  An ASIL cell is held character   *)
(* by character, since the summary searches single letters in it.          *)
(***************************************************************************)
MaxHaraLines == 2

UpperChar(c) ==
    CASE c = "a" -> "A"
      [] c = "s" -> "S"
      [] c = "i" -> "I"
      [] c = "l" -> "L"
      [] c = "d" -> "D"
      [] c = "b" -> "B"
      [] OTHER -> c

\* s.upper()
UpperStr(s) == [i \in 1..Len(s) |-> UpperChar(s[i])]

AsilKeys == <<<<"Q", "M">>, <<"A">>, <<"B">>, <<"C">>, <<"D">>>>
SeverityKeys == <<<<"S0">>, <<"S1">>, <<"S2">>, <<"S3">>>>
ExposureKeys == <<<<"E0">>, <<"E1">>, <<"E2">>, <<"E3">>>>
ControllabilityKeys == <<<<"C0">>, <<"C1">>, <<"C2">>, <<"C3">>>>

\* for key in counts.keys(): if key in value: counts[key] += 1; break
\* The index of the key that is counted for the value, 0 when none is.
CountedKey(keys, value) ==
    IF \E k \in DOMAIN keys : In(keys[k], value)
    THEN CHOOSE k \in DOMAIN keys :
             /\ In(keys[k], value)
             /\ \A j \in 1..(k - 1) : ~In(keys[j], value)
    ELSE 0

\* The counts of one distribution of the summary sheet, by key.
KeyCounts(keys, hara_entries, field) ==
    [key \in {keys[k] : k \in DOMAIN keys} |->
        Cardinality({i \in DOMAIN hara_entries :
            LET k == CountedKey(keys, UpperStr(hara_entries[i][field]))
            IN  k # 0 /\ keys[k] = key})]

create_hara_summary_sheet(hara_entries) ==
    [total |-> Len(hara_entries),
     asil_counts |-> KeyCounts(AsilKeys, hara_entries, "asil"),
     severity_counts |-> KeyCounts(SeverityKeys, hara_entries, "severity"),
     exposure_counts |-> KeyCounts(ExposureKeys, hara_entries, "exposure"),
     controllability_counts |->
         KeyCounts(ControllabilityKeys, hara_entries, "controllability")]

asil_priority ==
    (<<"Q", "M">> :> 0) @@ (<<"A">> :> 1) @@ (<<"B">> :> 2) @@ (<<"C">> :> 3)
    @@ (<<"D">> :> 4)

\* asil.upper().replace('ASIL', '').strip()
AsilClean(asil) == Strip(Replace(UpperStr(asil), <<"A", "S", "I", "L">>, <<>>))

\* The maximum ASIL of a list of ASIL values, 'QM' when none is recognized.
RECURSIVE MaxAsil(_, _)
MaxAsil(asil_list, max_asil) ==
    IF asil_list = <<>> THEN max_asil
    ELSE LET asil_clean == AsilClean(Strip(Head(asil_list)))
         IN  MaxAsil(Tail(asil_list),
                     IF asil_clean \in DOMAIN asil_priority
                        /\ asil_priority[asil_clean] > asil_priority[max_asil]
                     THEN asil_clean ELSE max_asil)

\* The goals of the entries, each once, in the order of their first entry.
RECURSIVE UniqueGoals(_, _)
UniqueGoals(hara_entries, seen) ==
    IF hara_entries = <<>> THEN seen
    ELSE LET sg == Strip(Head(hara_entries).safety_goal)
         IN  UniqueGoals(Tail(hara_entries),
                         IF \E i \in DOMAIN seen : seen[i] = sg
                         THEN seen ELSE Append(seen, sg))

\* create_safety_goals_summary: one row per goal with its maximum ASIL and
\* the number of its entries, the highest ASIL first (a stable sort).
create_safety_goals_summary(hara_entries) ==
    LET goals == UniqueGoals(hara_entries, <<>>)
        OfGoal(sg) ==
            LET Has(entry) == Strip(entry.safety_goal) = sg
                entries == SelectSeq(hara_entries, Has)
            IN  [goal |-> sg,
                 max_asil |-> MaxAsil([i \in DOMAIN entries |-> entries[i].asil],
                                      <<"Q", "M">>),
                 occurrences |-> Len(entries)]
        rows == [i \in DOMAIN goals |-> OfGoal(goals[i])]
        Is4(row) == asil_priority[row.max_asil] = 4
        Is3(row) == asil_priority[row.max_asil] = 3
        Is2(row) == asil_priority[row.max_asil] = 2
        Is1(row) == asil_priority[row.max_asil] = 1
        Is0(row) == asil_priority[row.max_asil] = 0
    IN  SelectSeq(rows, Is4) \o SelectSeq(rows, Is3) \o SelectSeq(rows, Is2)
        \o SelectSeq(rows, Is1) \o SelectSeq(rows, Is0)

\* hara_dev_xls.create_hara_excel on the entries parsed from the text.
create_hara_excel ==
    /\ LET hara_entries == parse_hara_table(llm_response)
       IN  response' =
               [kind |-> "create_hara_excel",
                hara_entries |-> hara_entries,
                sheets |-> <<"Summary", "Safety Goals Summary", "HARA Table">>,
                summary |-> create_hara_summary_sheet(hara_entries),
                safety_goals_summary |->
                    create_safety_goals_summary(hara_entries)]
    /\ UNCHANGED Memory

AsilSpellings ==
    {<<"D">>, <<"A", "S", "I", "L", " ", "D">>, <<"B">>, <<"Q", "M">>,
     <<"d">>}

HaraRow(asil, safety_goal) ==
    <<<<"HAZ", "-", "001">>, <<"Braking">>, <<"Loss">>, <<"collision">>,
      <<"highway">>, <<"S3">>, <<"E4">>, <<"C3">>, asil, safety_goal>>

HaraLines ==
    {TableLine(HaraRow(asil, safety_goal)) :
        asil \in AsilSpellings, safety_goal \in {SG1, SG2}}

AppendHaraLine ==
    /\ Len(llm_response) <= MaxHaraLines
    /\ \E line \in HaraLines : llm_response' = Append(llm_response, line)
    /\ response' = NoResponse
    /\ UNCHANGED <<fsc_functional_requirements, fsc_safety_goals, fsc_extras,
                   working_memory, review_items>>

InitHara ==
    /\ fsc_functional_requirements = <<>>
    /\ fsc_safety_goals = <<>>
    /\ fsc_extras = NoExtras
    /\ response = NoResponse
    /\ llm_response = <<TableLine(HaraHeaderCells)>>
    /\ working_memory = NoKeys
    /\ review_items = <<>>

NextHara ==
    \/ AppendHaraLine
    \/ create_hara_excel

SpecHara == InitHara /\ [][NextHara]_vars

(***************************************************************************)
(* Specifications.                                                         *)
(***************************************************************************)
\* The allocation workbook and the per-ASIL summaries.
InitAlloc ==
    /\ fsc_functional_requirements = <<>>
    /\ fsc_safety_goals = <<Goal("SG-001", "D")>>
    /\ fsc_extras = NoExtras
    /\ response = NoResponse
    /\ llm_response = <<>>
    /\ working_memory = NoKeys
    /\ review_items = <<>>

StoreAllocationFsr == StoreFsr(AllocationFsrs)

NextAlloc ==
    \/ StoreAllocationFsr
    \/ create_allocation_excel
    \/ create_allocation_report
    \/ create_fsr_excel
    \/ create_excel_file

SpecAlloc == InitAlloc /\ [][NextAlloc]_vars

\* The cells that list identifiers: a long list of FSRs with distinct
\* identifiers, each allocated to the ECU or not yet allocated.
StoreCellFsr ==
    /\ Len(fsc_functional_requirements) < MaxCellFsrs
    /\ \E allocated_to \in {"ECU", "TBD"} :
          fsc_functional_requirements' =
              Append(fsc_functional_requirements,
                     Fsr("FSR-" \o ToString(Len(fsc_functional_requirements) + 1),
                         "B", allocated_to, "General", PStr("SG-001"), "SG-001"))
    /\ response' = NoResponse
    /\ UNCHANGED <<fsc_safety_goals, fsc_extras, llm_response, working_memory, review_items>>

NextCells ==
    \/ StoreCellFsr
    \/ create_allocation_excel
    \/ create_excel_file

SpecCells == InitAlloc /\ [][NextCells]_vars

\* The statistics, from the empty working memory on.
StatisticsFsrs ==
    {Fsr("FSR-SG-001-DET-1", "B", "ECU", "detection", PStr("SG-001"), NONE),
     Fsr("FSR-SG-001-RCT-1", "D", "TBD", "reaction", PStr("SG-002"), NONE),
     Fsr("FSR-SG-002-CTL-1", NONE, NONE, "General", PAbsent, "SG-002")}

InitStats == EmptyMemory /\ fsc_extras = NoExtras

StoreStatisticsFsr == StoreFsr(StatisticsFsrs)

NextStats ==
    \/ StoreStatisticsFsr
    \/ StoreGoal
    \/ calculate_statistics
    \/ check_completeness
    \/ validate_data_word
    \/ create_statistics_sheet
    \/ allocation_analysis_report
    \/ create_fsc_excel
    \/ create_excel_file

SpecStats == InitStats /\ [][NextStats]_vars

\* The validators, the statistics and the completeness check.
Init == EmptyMemory /\ fsc_extras \in {NoExtras, AllExtras}

StoreValidationFsr == StoreFsr(ValidationFsrs)

Next ==
    \/ StoreValidationFsr
    \/ StoreGoal
    \/ validate_data_word
    \/ validate_data_excel
    \/ calculate_statistics
    \/ check_completeness

Spec == Init /\ [][Next]_vars

\* The document tools.
NextTools ==
    \/ StoreValidationFsr
    \/ StoreGoal
    \/ create_fsc_word_document
    \/ create_word_document
    \/ create_fsc_excel
    \/ create_excel_file

SpecTools == Init /\ [][NextTools]_vars

(***************************************************************************)
(* Claims.                                                                 *)
(***************************************************************************)
\* The distinct ASIL values of the FSRs allocated to a component.
AsilValuesOf(component) ==
    {AsilOf(fsc_functional_requirements[i]) :
        i \in {j \in 1..Len(fsc_functional_requirements) :
                 fsc_functional_requirements[j].allocated_to = component}}

\* The risk tier the specification defines for a set of distinct ASIL values.
RiskTier(values) ==
    IF Cardinality(values) >= 2 /\ values \cap {"C", "D"} # {} THEN "HIGH"
    ELSE IF Cardinality(values) >= 2 THEN "MEDIUM"
    ELSE "LOW"

AllocationExcelOk ==
    response.kind = "create_allocation_excel" /\ response.status = "ok"

\* C1: every component of the Freedom-from-Interference sheet has the risk
\* level HIGH iff its FSRs hold at least 2 distinct ASIL values one of which
\* is C or D, MEDIUM iff at least 2 and none is C or D, LOW otherwise; the
\* sheet lists every component that has an FSR, and the analysis report
\* names exactly the HIGH components as high risk.
C1_RiskLevel ==
    /\ AllocationExcelOk =>
          /\ {response.wb.freedom[i].component : i \in DOMAIN response.wb.freedom}
                = Components(fsc_functional_requirements)
          /\ \A i \in DOMAIN response.wb.freedom :
                response.wb.freedom[i].risk
                    = RiskTier(AsilValuesOf(response.wb.freedom[i].component))
    /\ (response.kind = "create_allocation_report" /\ response.status = "ok") =>
          response.report.high_risk_components
              = {c \in Components(fsc_functional_requirements) :
                    RiskTier(AsilValuesOf(c)) = "HIGH"}

\* A workbook with a HIGH component and a LOW component whose only ASIL is D.
C1_Witness ==
    /\ AllocationExcelOk
    /\ \E i, j \in DOMAIN response.wb.freedom :
          /\ response.wb.freedom[i].risk = "HIGH"
          /\ response.wb.freedom[j].risk = "LOW"
          /\ response.wb.freedom[j].asil_levels = <<"D">>

\* The ASIL ordering QM < A < B < C < D.
AsilRank(a) ==
    CASE a = "QM" -> 0 [] a = "A" -> 1 [] a = "B" -> 2 [] a = "C" -> 3
      [] a = "D" -> 4 [] OTHER -> 0

\* C2: the Highest ASIL of every group of the By Component sheet is the
\* maximum of the ASIL values of the group's FSRs under QM < A < B < C < D.
C2_HighestAsil ==
    AllocationExcelOk =>
        \A i \in DOMAIN response.wb.by_component :
            LET row == response.wb.by_component[i]
            IN  /\ row.highest_asil \in AsilValuesOf(row.component)
                /\ \A a \in AsilValuesOf(row.component) :
                      AsilRank(a) <= AsilRank(row.highest_asil)

\* A sequence of ASIL levels follows the fixed order D, C, B, A, QM.
InFixedAsilOrder(levels) ==
    \A i, j \in 1..Len(levels) :
        i < j => \E p, q \in 1..Len(AsilOrder) :
                    p < q /\ AsilOrder[p] = levels[i] /\ AsilOrder[q] = levels[j]

Keys(items) == [i \in 1..Len(items) |-> items[i][1]]

\* C10: every per-ASIL listing the program emits (By ASIL sheet, report,
\* Statistics sheet, ASIL summaries of the tool responses) lists the levels
\* present in the order D, C, B, A, QM.
C10_FixedAsilOrder ==
    /\ AllocationExcelOk =>
          InFixedAsilOrder([i \in DOMAIN response.wb.by_asil |->
                               response.wb.by_asil[i].asil])
    /\ (response.kind = "create_allocation_report" /\ response.status = "ok") =>
          InFixedAsilOrder(response.report.asil_distribution)
    /\ (response.kind = "create_fsr_excel" /\ response.status = "ok") =>
          InFixedAsilOrder(Keys(response.asil_lines))
    /\ (response.kind = "create_excel_file" /\ response.status = "ok") =>
          /\ InFixedAsilOrder(Keys(response.asil_lines))
          /\ InFixedAsilOrder(Keys(response.wb.statistics.asil_rows))

(***************************************************************************)
(* Claims about the validators and the statistics.                         *)
(***************************************************************************)
\* The goals whose id is, exactly, a parent id of at least one FSR.
CoveredGoals ==
    {i \in 1..Len(fsc_safety_goals) :
        \E j \in 1..Len(fsc_functional_requirements) :
            fsc_safety_goals[i].id \in ParentIds(fsc_functional_requirements[j])}

HasWarning(warnings, text) == \E i \in 1..Len(warnings) : warnings[i].w = text

WarningsWith(warnings, text) == {warnings[i] : i \in {j \in 1..Len(warnings) : warnings[j].w = text}}

WordValidated == response.kind = "FSCWordGenerator.validate_data"
ExcelValidated == response.kind = "FSCExcelGenerator.validate_data"
StatisticsDone == response.kind = "FSCWordGenerator.calculate_statistics"
CompletenessDone == response.kind = "FSCWordGenerator.check_completeness"

\* C3: validate_data, calculate_statistics and check_completeness count a
\* goal as covered iff an FSR's parent field holds its id exactly, so the
\* number of covered goals is that of CoveredGoals, the coverage is
\* covered / goals x 100 and never exceeds 100.
C3_CoverageCountsKnownGoals ==
    LET n == Cardinality(CoveredGoals)
        m == Len(fsc_safety_goals)
    IN  fsc_safety_goals # <<>> =>
        /\ StatisticsDone =>
              /\ response.result.goals_with_fsrs = n
              /\ response.result.coverage_pct = (IF m > 0 THEN PctTenths(n, m) ELSE 0)
              /\ response.result.coverage_pct <= 1000
        /\ (WordValidated /\ response.result.is_valid) =>
              /\ HasWarning(response.result.warnings, "Only n/m safety goals have FSRs")
                    <=> n < m
              /\ \A w \in WarningsWith(response.result.warnings,
                                       "Only n/m safety goals have FSRs") : w.n = n
        /\ CompletenessDone =>
              /\ HasWarning(response.result, "n safety goal(s) have no FSRs") <=> n < m
              /\ \A w \in WarningsWith(response.result, "n safety goal(s) have no FSRs") :
                    w.n = m - n

\* Every goal id is the safety_goal_id of at least one FSR.
EveryGoalLinkedBySafetyGoalId ==
    /\ fsc_safety_goals # <<>>
    /\ \A i \in 1..Len(fsc_safety_goals) :
          \E j \in 1..Len(fsc_functional_requirements) :
              fsc_functional_requirements[j].safety_goal_id = fsc_safety_goals[i].id

\* C4: when every goal id is the safety_goal_id of at least one FSR, the
\* validator and the statistics report 100% coverage and no warning about
\* goals without FSRs is emitted.
C4_FullCoverageBySafetyGoalId ==
    EveryGoalLinkedBySafetyGoalId =>
        /\ StatisticsDone => response.result.coverage_pct = 1000
        /\ WordValidated =>
              ~HasWarning(response.result.warnings, "Only n/m safety goals have FSRs")
        /\ CompletenessDone =>
              ~HasWarning(response.result, "n safety goal(s) have no FSRs")

\* C5: validate_data on an empty FSR list and a non-empty goal list returns
\* is_valid = False, no warnings, and exactly one error, the one about FSRs.
C5_EmptyFsrsIsOneError ==
    ((WordValidated \/ ExcelValidated)
        /\ fsc_functional_requirements = <<>> /\ fsc_safety_goals # <<>>) =>
        /\ response.result.is_valid = FALSE
        /\ response.result.warnings = <<>>
        /\ response.result.errors = <<"No FSRs available">>

\* The Word validator has run on goals without FSRs.
C5_Witness ==
    /\ WordValidated
    /\ fsc_functional_requirements = <<>>
    /\ Len(fsc_safety_goals) = 2
    /\ response.result.is_valid = FALSE

\* Two FSRs of the working memory share their identifier.
SharedIdentifier ==
    \E i, j \in 1..Len(fsc_functional_requirements) :
        i # j /\ fsc_functional_requirements[i].id = fsc_functional_requirements[j].id

\* C6: on non-empty lists each validate_data returns is_valid = True, with a
\* duplicate-identifier warning iff two FSRs share their identifier.
C6_DuplicateWarning ==
    ((WordValidated \/ ExcelValidated)
        /\ fsc_functional_requirements # <<>> /\ fsc_safety_goals # <<>>) =>
        /\ response.result.is_valid = TRUE
        /\ HasWarning(response.result.warnings, "Duplicate FSR IDs detected")
              <=> SharedIdentifier

\* s reordered by the permutation p of its indexes.
Permuted(s, p) == [i \in 1..Len(s) |-> s[p[i]]]

\* C9: validate_data returns the same is_valid, errors and warnings, in the
\* same order, for every permutation of the FSR list and of the goal list,
\* the identity included (a second call on the same input).  Every
\* permutation of either list is itself a reachable memory, so the two
\* quantifiers compose to the permutations of both lists at once.
C9_OrderIndependent ==
    /\ WordValidated =>
          /\ \A p \in Permutations(1..Len(fsc_functional_requirements)) :
                FSCWordGenerator_validate_data(
                    fsc_safety_goals, Permuted(fsc_functional_requirements, p))
                  = response.result
          /\ \A p \in Permutations(1..Len(fsc_safety_goals)) :
                FSCWordGenerator_validate_data(
                    Permuted(fsc_safety_goals, p), fsc_functional_requirements)
                  = response.result
    /\ ExcelValidated =>
          /\ \A p \in Permutations(1..Len(fsc_functional_requirements)) :
                FSCExcelGenerator_validate_data(
                    fsc_safety_goals, Permuted(fsc_functional_requirements, p))
                  = response.result
          /\ \A p \in Permutations(1..Len(fsc_safety_goals)) :
                FSCExcelGenerator_validate_data(
                    Permuted(fsc_safety_goals, p), fsc_functional_requirements)
                  = response.result

\* The validators have run on three FSRs of which the first and the last
\* share an identifier that the middle one does not have.
C9_Witness ==
    /\ ExcelValidated
    /\ Len(fsc_functional_requirements) = 3
    /\ Len(fsc_safety_goals) = 2
    /\ fsc_functional_requirements[1].id = fsc_functional_requirements[3].id
    /\ fsc_functional_requirements[1].id # fsc_functional_requirements[2].id
    /\ HasWarning(response.result.warnings, "Duplicate FSR IDs detected")

(***************************************************************************)
(* Claims about the document tools.                                        *)
(***************************************************************************)
FscToolKinds ==
    {"create_fsc_word_document", "create_word_document", "create_fsc_excel",
     "create_excel_file"}

\* What the tool of the given kind returns on the given memory when the sink
\* accepts the file.
ToolResponse(kind, goals_data, fsrs_data) ==
    CASE kind = "create_fsc_word_document" ->
            create_fsc_word_document_response(goals_data, fsrs_data, fsc_extras, TRUE)
      [] kind = "create_word_document" ->
            create_word_document_response(goals_data, fsrs_data, fsc_extras, TRUE)
      [] kind = "create_fsc_excel" ->
            create_fsc_excel_response(goals_data, fsrs_data, TRUE)
      [] kind = "create_excel_file" ->
            create_excel_file_response(goals_data, fsrs_data, TRUE)

\* C7: with the goals or the FSRs empty every FSC document tool stops before
\* statistics, generation and save, and its message names the missing input:
\* the message for missing goals differs from the one for missing FSRs.
C7_InsufficientDataNamesInput ==
    (response.kind \in FscToolKinds
        /\ (fsc_safety_goals = <<>> \/ fsc_functional_requirements = <<>>)) =>
        /\ response.status \in {"insufficient", "validation_failed"}
        /\ Range(response.calls)
              \cap {"calculate_statistics", "check_completeness", "generate", "save"} = {}
        /\ (fsc_safety_goals = <<>> /\ fsc_functional_requirements # <<>>) =>
              \A goal \in Goals :
                  response.message # ToolResponse(response.kind, <<goal>>, <<>>).message

\* C8: after a successful generation every warning validate_data returned
\* and every completeness warning is in the response of the tool.
C8_WarningsSurfaced ==
    (response.kind \in FscToolKinds /\ response.status = "ok") =>
        /\ \A i \in 1..Len(response.validation_returned) :
              response.validation_returned[i] \in Range(response.data_quality_notices)
        /\ response.kind \in {"create_fsc_word_document", "create_word_document"} =>
              Range(FSCWordGenerator_check_completeness(
                        fsc_safety_goals, fsc_functional_requirements,
                        fsc_extras.strategies, fsc_extras))
                 \subseteq Range(response.completeness_warnings)

(***************************************************************************)
(* Claims about the cells that list identifiers.                           *)
(***************************************************************************)
\* The identifiers, in list order, of the FSRs that satisfy InGroup.
GroupIds(InGroup(_)) == IdsOf(FilterSeq(fsc_functional_requirements, InGroup))

\* The cell the specification describes for a group and a limit.
TruncatedCell(ids, limit) ==
    IF Len(ids) > limit
    THEN [ids |-> SubSeq(ids, 1, limit),
          suffix |-> <<" ... (+", Len(ids) - limit, " more)">>]
    ELSE [ids |-> ids, suffix |-> <<>>]

\* C11: every cell that lists the identifiers of a group shows the first
\* `limit` identifiers followed by ' ... (+N-limit more)' when the group has
\* N > limit items, and all identifiers without suffix otherwise; the limit
\* is 5 for a component of the By Component sheet and 10 for its unallocated
\* row and for a row of the FSC Allocation Matrix sheet.
C11_TruncationAppendsCount ==
    /\ AllocationExcelOk =>
          /\ \A i \in DOMAIN response.wb.by_component :
                LET row == response.wb.by_component[i]
                    InGroup(f) == IsAllocated(f) /\ f.allocated_to = row.component
                IN  row.fsr_ids = TruncatedCell(GroupIds(InGroup), 5)
          /\ \A i \in DOMAIN response.wb.by_component_unallocated :
                LET InGroup(f) == ~IsAllocated(f)
                IN  response.wb.by_component_unallocated[i].fsr_ids
                        = TruncatedCell(GroupIds(InGroup), 10)
    /\ (response.kind = "create_excel_file" /\ response.status = "ok") =>
          \A i \in DOMAIN response.wb.allocation :
              LET row == response.wb.allocation[i]
                  InGroup(f) == Get(f, "allocated_to", "Unallocated") = row.component
              IN  row.fsr_ids = TruncatedCell(GroupIds(InGroup), 10)

(***************************************************************************)
(* Claims about the percentages.                                           *)
(***************************************************************************)
\* No warning of the list carries a percentage whose division raised.
NoWarningRaised(warnings) ==
    \A i \in 1..Len(warnings) :
        "pct" \in DOMAIN warnings[i] => warnings[i].pct # ZeroDivisionError

FsrStatisticsDone == response.kind = "fsr_excel_generator._create_statistics_sheet"
ReportDone == response.kind = "generate_allocation_analysis_report"

\* C12: no statistics computation divides by zero, whatever the record
\* lists, the empty ones included; with a total of 0 the percentage is 0.
C12_NoDivisionByZero ==
    /\ StatisticsDone =>
          /\ response.result.allocation_pct # ZeroDivisionError
          /\ response.result.coverage_pct # ZeroDivisionError
          /\ fsc_functional_requirements = <<>> => response.result.allocation_pct = 0
          /\ fsc_safety_goals = <<>> => response.result.coverage_pct = 0
    /\ CompletenessDone => NoWarningRaised(response.result)
    /\ WordValidated => NoWarningRaised(response.result.warnings)
    /\ FsrStatisticsDone =>
          /\ response.result.allocated_pct.tenths # ZeroDivisionError
          /\ response.result.unallocated_pct.tenths # ZeroDivisionError
          /\ \A i \in DOMAIN response.result.asil_rows :
                response.result.asil_rows[i].pct.tenths # ZeroDivisionError
          /\ \A c \in DOMAIN response.result.component_rows :
                response.result.component_rows[c].pct.tenths # ZeroDivisionError
          /\ fsc_functional_requirements = <<>> =>
                /\ response.result.allocated_pct = ZeroPercent
                /\ response.result.unallocated_pct = ZeroPercent
    /\ ReportDone =>
          /\ response.result.allocated_pct # ZeroDivisionError
          /\ fsc_functional_requirements = <<>> => response.result.allocated_pct = 0
    /\ (response.kind \in {"create_fsc_excel", "create_excel_file"}
           /\ response.status = "ok") =>
          response.allocated_pct # ZeroDivisionError

\* The statistics sheet of the FSR workbook was written for no FSR at all.
C12_Witness ==
    /\ FsrStatisticsDone
    /\ fsc_functional_requirements = <<>>
    /\ response.result.total = 0
    /\ response.result.allocated_pct = ZeroPercent

(***************************************************************************)
(* Claims about the table parsers.                                         *)
(***************************************************************************)
FsrsParsed == response.kind = "parse_fsrs"
TableParsed == response.kind = "parse_fsrs_table_format"
HaraParsed == response.kind = "parse_hara_table"

IsTableRow(line) == StartsWith(Strip(line), <<"|">>)

\* The cells of a table row, the empty ones included: the texts between two
\* bars, trimmed.
RowCells(line) ==
    LET parts == StrippedCells(Strip(line))
    IN  SubSeq(parts, 2, Len(parts) - 1)

\* A row whose cells consist only of '-' and ':' characters.
IsSeparatorRow(line) ==
    LET cells == RowCells(line)
    IN  /\ IsTableRow(line)
        /\ cells # <<>>
        /\ \A i \in 1..Len(cells) :
              cells[i] # <<>> /\ Range(cells[i]) \subseteq {"-", ":"}

IsFsrHeaderRow(line) ==
    LET cells == RowCells(line)
    IN  /\ IsTableRow(line)
        /\ \E i \in 1..Len(cells) :
              LET cell == LowerStr(cells[i])
              IN  In(<<"fsr">>, cell) /\ In(<<"id">>, cell)

IsHaraHeaderRow(line) ==
    /\ IsTableRow(line)
    /\ RowCells(line) # <<>>
    /\ In(<<"ID">>, RowCells(line)[1])

\* The index of the first FSR (HARA) header row of the text, 0 if none.
FsrHeaderAt ==
    LET at == {i \in 1..Len(llm_response) : IsFsrHeaderRow(llm_response[i])}
    IN  IF at = {} THEN 0 ELSE CHOOSE i \in at : \A j \in at : i <= j

HaraHeaderAt ==
    LET at == {i \in 1..Len(llm_response) : IsHaraHeaderRow(llm_response[i])}
    IN  IF at = {} THEN 0 ELSE CHOOSE i \in at : \A j \in at : i <= j

LinesAfter(h) == SubSeq(llm_response, h + 1, Len(llm_response))

\* The FSR data rows: the rows after the header whose first cell holds FSR-.
FsrDataRows ==
    LET IsData(line) == /\ IsTableRow(line)
                        /\ ~IsSeparatorRow(line)
                        /\ RowCells(line) # <<>>
                        /\ In(<<"FSR", "-">>, RowCells(line)[1])
    IN  IF FsrHeaderAt = 0 THEN <<>> ELSE SelectSeq(LinesAfter(FsrHeaderAt), IsData)

\* The HARA data rows: the rows of at least 10 cells after the header that
\* are neither separators nor header rows.
HaraDataRows ==
    LET IsData(line) == /\ IsTableRow(line)
                        /\ ~IsSeparatorRow(line)
                        /\ ~IsHaraHeaderRow(line)
                        /\ Len(RowCells(line)) >= 10
    IN  IF HaraHeaderAt = 0 THEN <<>> ELSE SelectSeq(LinesAfter(HaraHeaderAt), IsData)

\* The records a table and a bold-label block describe.
DescribedRecords ==
    {<<[id |-> FsrId1, description |-> <<"detect">>, allocated_to |-> <<"ECU">>,
        asil |-> <<"D">>, safety_goal_id |-> SG1,
        verification_criteria |-> <<"test">>, ftti |-> <<"10">>]>>}

TableBlock(recs) ==
    <<TableLine(FsrHeaderCells), SeparatorLine>>
    \o [i \in 1..Len(recs) |->
           TableLine(<<recs[i].id, recs[i].description, recs[i].allocated_to,
                       recs[i].asil, recs[i].safety_goal_id,
                       recs[i].verification_criteria, recs[i].ftti>>)]

RECURSIVE BoldBlock(_)
BoldBlock(recs) ==
    IF recs = <<>> THEN <<>>
    ELSE LET r == Head(recs)
         IN  <<<<"#", "#", " ", "FSRs for Safety Goal", ":", " ">> \o r.safety_goal_id,
               <<"*", "*">> \o r.id \o <<"*", "*">>,
               FieldLine(<<"Description">>, r.description),
               FieldLine(<<"ASIL">>, r.asil),
               FieldLine(<<"Allocation">>, r.allocated_to),
               FieldLine(<<"Verification">>, r.verification_criteria),
               FieldLine(<<"FTTI">>, r.ftti)>>
             \o BoldBlock(Tail(recs))

RecordFields ==
    {"id", "description", "allocated_to", "asil", "safety_goal_id",
     "verification_criteria", "ftti", "type", "operating_modes"}

\* C13: parse_fsrs of a table block and of the bold-label block that
\* describes the same records return the same number of records, in the
\* same order, with equal values for every field.
C13_SameRecordsFromBothFormats ==
    \A recs \in DescribedRecords :
        (FsrsParsed /\ llm_response = TableBlock(recs)) =>
            LET bold == parse_fsrs(BoldBlock(recs), fsc_safety_goals)
            IN  /\ Len(bold) = Len(response.result)
                /\ \A k \in 1..Len(bold) : \A f \in RecordFields :
                      bold[k][f] = response.result[k][f]

\* C14: both table parsers emit a record only for a row after a recognized
\* header row: without a header the result is empty, and every record comes
\* from a row below the first header.
C14_HeaderBeforeRows ==
    /\ TableParsed =>
          /\ FsrHeaderAt = 0 => response.result = <<>>
          /\ Len(response.result) <= Len(LinesAfter(FsrHeaderAt))
          /\ response.result # <<>> =>
                \A k \in 1..Len(response.result) :
                    \E j \in (FsrHeaderAt + 1)..Len(llm_response) :
                        /\ IsTableRow(llm_response[j])
                        /\ response.result[k].id = RowCells(llm_response[j])[1]
    /\ HaraParsed =>
          /\ HaraHeaderAt = 0 => response.result = <<>>
          /\ Len(response.result) <= Len(LinesAfter(HaraHeaderAt))
          /\ response.result # <<>> =>
                \A k \in 1..Len(response.result) :
                    \E j \in (HaraHeaderAt + 1)..Len(llm_response) :
                        /\ IsTableRow(llm_response[j])
                        /\ response.result[k].hazard_id = RowCells(llm_response[j])[1]

\* The FSR table parser ran on a text whose only data row precedes the
\* header, and returned no record.
C14_Witness ==
    /\ TableParsed
    /\ Len(llm_response) = 2
    /\ IsFsrHeaderRow(llm_response[2])
    /\ IsTableRow(llm_response[1])
    /\ In(<<"FSR", "-">>, RowCells(llm_response[1])[1])
    /\ response.result = <<>>

\* The record field that a key of the header mapping fills, and its sentinel.
FieldOfKey(key) ==
    CASE key = "id" -> "id"
      [] key = "description" -> "description"
      [] key = "allocation" -> "allocated_to"
      [] key = "asil" -> "asil"
      [] key = "linked_sg" -> "safety_goal_id"
      [] key = "verification" -> "verification_criteria"
      [] key = "ftti" -> "ftti"

SentinelOfKey(key) == IF key = "id" THEN <<"Unknown">> ELSE <<"N/A">>

\* C15: every data row of an FSR table gives one record, each field of which
\* is the trimmed cell of the row in the column of the header cell that maps
\* to the field, or the sentinel when the row has no such column; an empty
\* cell stays in its column.
C15_CellsByHeaderColumn ==
    (TableParsed /\ FsrHeaderAt # 0) =>
        LET header_cells == RowCells(llm_response[FsrHeaderAt])
            Column(key) == CHOOSE i \in 1..Len(header_cells) :
                              HeaderField(header_cells[i]) = key
            keys == {HeaderField(header_cells[i]) : i \in 1..Len(header_cells)}
                        \ {"none"}
        IN  /\ Len(response.result) = Len(FsrDataRows)
            /\ \A k \in 1..Len(response.result) : \A key \in keys :
                  LET cells == RowCells(FsrDataRows[k])
                  IN  response.result[k][FieldOfKey(key)] =
                          IF Column(key) <= Len(cells) THEN cells[Column(key)]
                          ELSE SentinelOfKey(key)

\* C16: parse_hara_table gives exactly one entry, in input order, for every
\* row after the header that has at least 10 cells and is not a separator,
\* with safe_state and ftti 'N/A' for a row of 10 cells; a row whose first
\* cells hold hyphens is such a row.
C16_OnlySeparatorsSkipped ==
    HaraParsed =>
        /\ Len(response.result) = Len(HaraDataRows)
        /\ \A k \in 1..Len(response.result) :
              LET cells == RowCells(HaraDataRows[k])
              IN  /\ response.result[k].hazard_id = cells[1]
                  /\ response.result[k].safety_goal = cells[10]
                  /\ Len(cells) = 10 =>
                        /\ response.result[k].safe_state = <<"N/A">>
                        /\ response.result[k].ftti = <<"N/A">>

(***************************************************************************)
(* Claims about the bold-label parser.                                     *)
(***************************************************************************)
\* parse_fsrs ran on a text without table rows.
BoldLabelParsed ==
    /\ FsrsParsed
    /\ \A i \in 1..Len(llm_response) : ~In(<<"|">>, llm_response[i])

IsSectionLine(line) == In(<<"FSRs for Safety Goal", ":">>, Strip(line))

\* A group is current at line i: a section marker at or above it holds the
\* id of a goal of the list.
GroupCurrentAt(i) ==
    \E j \in 1..i :
        /\ IsSectionLine(llm_response[j])
        /\ \E g \in 1..Len(fsc_safety_goals) :
              In(fsc_safety_goals[g].id, llm_response[j])

\* The lines the parser recognizes as record markers.
RecognizedMarkers ==
    {i \in 1..Len(llm_response) :
        LET line == Strip(llm_response[i])
        IN  /\ GroupCurrentAt(i)
            /\ In(<<"FSR", "-">>, line)
            /\ In(<<"*", "*", "FSR", "-">>, line) \/ StartsWith(line, <<"FSR", "-">>)}

\* The k-th line of a set of lines, in input order.
LineAt(lines, k) ==
    CHOOSE i \in lines : Cardinality({j \in lines : j <= i}) = k

\* The last line before the (k+1)-th line of the set, or the last line.
SegmentEnd(lines, k) ==
    IF k = Cardinality(lines) THEN Len(llm_response) ELSE LineAt(lines, k + 1) - 1

GoalOfId(id) ==
    fsc_safety_goals[CHOOSE g \in 1..Len(fsc_safety_goals) : fsc_safety_goals[g].id = id]

\* C17: the result of the bold-label parser holds exactly one record per
\* recognized record marker, in input order, the last one included (flush
\* at end of input), and a line that sets the ASIL changes only the record
\* of the most recent marker above it.
C17_OneRecordPerMarker ==
    BoldLabelParsed =>
        LET markers == RecognizedMarkers
        IN  /\ Len(response.result) = Cardinality(markers)
            /\ \A k \in 1..Len(response.result) :
                  LET r == response.result[k]
                      at == LineAt(markers, k)
                  IN  /\ r.id = MarkerId(Strip(llm_response[at]),
                                         [id |-> r.safety_goal_id])
                      /\ r.asil =
                            IF \E i \in (at + 1)..SegmentEnd(markers, k) :
                                   llm_response[i] = AsilLine
                            THEN <<"B">>
                            ELSE GoalOfId(r.safety_goal_id).asil

\* Two markers followed by an ASIL line were parsed: two records, the first
\* with the ASIL of its goal, the second with the ASIL of the line.
C17_Witness ==
    /\ BoldLabelParsed
    /\ llm_response = <<SectionLine(SG1), BoldMarkerLine(FsrId1),
                        BoldMarkerLine(FsrId1), AsilLine>>
    /\ Len(response.result) = 2
    /\ response.result[1].asil = <<"D">>
    /\ response.result[2].asil = <<"B">>

\* The line without a leading list marker '- ' or '* '.
WithoutListMarker(line) ==
    LET s == Strip(line)
    IN  IF Len(s) >= 2 /\ s[1] \in {"-", "*"} /\ s[2] = " "
        THEN Strip(SubSeq(s, 3, Len(s))) ELSE s

\* The identifier prefix is at the line start or wrapped in '**'.
HasMarkerForm(line) ==
    LET s == WithoutListMarker(line)
    IN  StartsWith(s, <<"FSR", "-">>) \/ StartsWith(s, <<"*", "*", "FSR", "-">>)

\* A '**Field:** value' line: a bold label that ends with a colon.
HasFieldForm(line) ==
    LET s == WithoutListMarker(line)
        parts == Split(s, <<"*", "*">>)
    IN  /\ StartsWith(s, <<"*", "*">>)
        /\ Len(parts) >= 3
        /\ parts[2] # <<>>
        /\ parts[2][Len(parts[2])] = ":"

\* The lines of marker form below a section marker of a goal of the list.
FormedMarkers ==
    {i \in 1..Len(llm_response) :
        GroupCurrentAt(i) /\ HasMarkerForm(llm_response[i])}

\* C18: every line that has the identifier prefix at its start or wrapped
\* in '**', after a leading list marker is stripped, starts a record, and no
\* '**Field:** value' line does: the records of the result are those of the
\* lines of marker form, in input order.
C18_MarkerRecognition ==
    BoldLabelParsed =>
        LET formed == FormedMarkers
        IN  /\ \A i \in formed : ~HasFieldForm(llm_response[i])
            /\ Len(response.result) = Cardinality(formed)
            /\ \A k \in 1..Len(response.result) :
                  StartsWith(response.result[k].id, <<"FSR", "-">>)

\* The id a section marker names: the text after 'FSRs for Safety Goal:'.
NamedId(line) ==
    LET parts == Split(Strip(line), <<"FSRs for Safety Goal", ":">>)
    IN  IF Len(parts) >= 2 THEN Strip(parts[2]) ELSE <<>>

\* The section markers at or above line i that name a goal of the list.
KnownSections(i) ==
    {j \in 1..i : \E g \in 1..Len(fsc_safety_goals) :
                      NamedId(llm_response[j]) = fsc_safety_goals[g].id}

\* The group that is current at line i: the goal the last of them names.
NamedGroupAt(i) ==
    LET known == KnownSections(i)
        last == CHOOSE j \in known : \A l \in known : l <= j
    IN  GoalOfId(NamedId(llm_response[last]))

\* C19: every record carries as safety_goal_id the id of the goal named by
\* the last section marker above its record marker that names a goal of the
\* list, and the ASIL of that goal unless a line of the record sets another;
\* a marker that names no goal of the list changes nothing.  The goal lists
\* hold SG-1 and SG-10, in both orders.
C19_GroupOfNamedGoal ==
    BoldLabelParsed =>
        LET markers == RecognizedMarkers
        IN  /\ Len(response.result) = Cardinality(markers)
            /\ \A k \in 1..Len(response.result) :
                  LET r == response.result[k]
                      at == LineAt(markers, k)
                  IN  KnownSections(at) # {} =>
                          /\ r.safety_goal_id = NamedGroupAt(at).id
                          /\ (\A i \in (at + 1)..SegmentEnd(markers, k) :
                                 llm_response[i] # AsilLine)
                             => r.asil = NamedGroupAt(at).asil

\* The keyword table: keyword, number of characters, field.
FieldKeywords ==
    {[keyword |-> <<"description">>, length |-> 11, field |-> "description"],
     [keyword |-> <<"asil">>, length |-> 4, field |-> "asil"],
     [keyword |-> <<"operating", " ", "mode">>, length |-> 14, field |-> "operating_modes"],
     [keyword |-> <<"allocation">>, length |-> 10, field |-> "allocated_to"],
     [keyword |-> <<"allocated">>, length |-> 9, field |-> "allocated_to"],
     [keyword |-> <<"verification">>, length |-> 12, field |-> "verification_criteria"],
     [keyword |-> <<"validation">>, length |-> 10, field |-> "verification_criteria"],
     [keyword |-> <<"ftti">>, length |-> 4, field |-> "ftti"],
     [keyword |-> <<"time", " ", "constraint">>, length |-> 15, field |-> "ftti"]}

\* The field of the longest keyword that occurs in the label, "none" if no
\* keyword occurs; 'asil' does not count in a label that holds 'linked'.
LongestField(label) ==
    LET name == LowerStr(label)
        hits == {e \in FieldKeywords :
                    /\ In(e.keyword, name)
                    /\ e.field = "asil" => ~In(<<"linked">>, name)}
    IN  IF hits = {} THEN "none"
        ELSE (CHOOSE e \in hits : \A o \in hits : o.length <= e.length).field

\* The label and the value of a '**Label:** value' line.
LabelOf(line) ==
    LET label == Split(WithoutListMarker(line), <<"*", "*">>)[2]
    IN  SubSeq(label, 1, Len(label) - 1)

ValueOf(line) == Strip(Split(WithoutListMarker(line), <<"*", "*">>)[3])

UpdatedFields ==
    {"description", "asil", "operating_modes", "allocated_to",
     "verification_criteria", "ftti"}

\* C20: below a record marker, each '**Label:** value' line sets the field
\* of the longest keyword in its label to its value and no other field; a
\* label with 'linked' does not set asil and a label without keyword sets
\* nothing.  The record is the new record with, for each field, the value of
\* the last line whose label maps to it.
C20_LongestKeywordField ==
    (/\ BoldLabelParsed
     /\ Len(llm_response) > 2
     /\ SubSeq(llm_response, 1, 2) = <<SectionLine(SG1), BoldMarkerLine(FsrId1)>>
     /\ \A i \in 3..Len(llm_response) : HasFieldForm(llm_response[i]))
    => /\ Len(response.result) = 1
       /\ \A f \in UpdatedFields :
             LET setters == {i \in 3..Len(llm_response) :
                                LongestField(LabelOf(llm_response[i])) = f}
                 last == CHOOSE i \in setters : \A j \in setters : j <= i
             IN  response.result[1][f] =
                     IF setters = {}
                     THEN NewRecord(FsrId1, fsc_safety_goals[1])[f]
                     ELSE ValueOf(llm_response[last])

\* A line with a bold label and a colon, and the label it carries.
IsLabelLine(line) == In(<<"*", "*">>, line) /\ In(<<":">>, line) /\ ~HasMarkerForm(line)

LabelIn(line) ==
    LowerStr(Strip(Split(Split(line, <<"*", "*">>)[2], <<":">>)[1]))

\* The last line of the text, above line n, that is a field line or a
\* record marker.
LastStructuralLine(n) ==
    LET at == {i \in 1..(n - 1) :
                  IsLabelLine(llm_response[i]) \/ HasMarkerForm(llm_response[i])}
    IN  CHOOSE i \in at : \A j \in at : j <= i

\* C21: a paragraph line below a record marker yields no record of its own;
\* it is appended to the description of the current record when the last
\* field line or marker above it is a Description line, whatever value that
\* line carried, and changes nothing otherwise.
C21_DescriptionContinuation ==
    (/\ BoldLabelParsed
     /\ Len(llm_response) > 2
     /\ SubSeq(llm_response, 1, 2) = <<SectionLine(SG1), BoldMarkerLine(FsrId1)>>
     /\ llm_response[Len(llm_response)] = ParagraphLine)
    => LET n == Len(llm_response)
           before == parse_fsrs(SubSeq(llm_response, 1, n - 1), fsc_safety_goals)
           prev == before[Len(before)].description
           last == llm_response[LastStructuralLine(n)]
           follows == IsLabelLine(last) /\ In(<<"description">>, LabelIn(last))
           after == response.result[Len(before)].description
       IN  /\ Len(response.result) = Len(before)
           /\ IF follows
              THEN after \in {prev \o ParagraphLine, prev \o <<" ">> \o ParagraphLine}
              ELSE after = prev

\* The position in the fixed list of the first code that occurs as '-CODE-'
\* in the identifier, 0 if none occurs.
FirstListedCode(id) ==
    LET hits == {i \in 1..Len(TypeCodes) : In(<<"-", TypeCodes[i], "-">>, id)}
    IN  IF hits = {} THEN 0 ELSE CHOOSE i \in hits : \A j \in hits : i <= j

\* C22: the type of every parsed record is the type of the first code of
\* the fixed list that occurs as '-CODE-' in its identifier (the code or its
\* name), and 'Other' when the identifier holds none of the codes.
C22_TypeFromIdentifier ==
    FsrsParsed =>
        \A k \in 1..Len(response.result) :
            LET r == response.result[k]
                code == FirstListedCode(r.id)
            IN  IF code = 0 THEN r.type = <<"Other">>
                ELSE r.type \in {<<TypeCodes[code]>>, <<TypeNames[code]>>}

\* C23: parse_fsrs returns a list and raises no exception, for every text
\* and every list of safety goals of the session store.
C23_ParsersNeverRaise ==
    FsrsParsed => response.raised = "none"

(***************************************************************************)
(* Claims about file names.                                                *)
(***************************************************************************)
\* The part of a file name between '<Kind>_' and '_<timestamp><ext>'.
NamePart(filename) == SubSeq(filename, 3, Len(filename) - 3)

\* C24: the name part of every file name a document tool builds holds only
\* alphanumerics, '.', '_' and '-', and is what sanitizing it again gives.
C24_SanitizedFileName ==
    response.kind = "filename" =>
        LET part == NamePart(response.filename)
        IN  /\ Len(part) = Len(response.system_name)
            /\ \A i \in 1..Len(part) :
                  /\ IsAlnum(part[i]) \/ part[i] \in {".", "_", "-"}
                  /\ (IsAlnum(response.system_name[i])
                      \/ response.system_name[i] \in {".", "_", "-"})
                     => part[i] = response.system_name[i]
            /\ SafeName(part) = part

(***************************************************************************)
(* Claims about the review workbook.                                       *)
(***************************************************************************)
ReviewClasses == {"pass", "fail", "partial"}

\* The number of rows of the results sheet with a class, and the sum of a
\* counter over the categories of the breakdown sheet.
RowsOfClass(class) ==
    Cardinality({i \in 1..Len(response.results) : response.results[i] = class})

RECURSIVE SumOver(_, _)
SumOver(categories, class) ==
    IF categories = {} THEN 0
    ELSE LET c == CHOOSE c \in categories : TRUE
         IN  response.breakdown[c][class] + SumOver(categories \ {c}, class)

\* C25: in a review workbook a 'Partial Pass' row is classified as partial,
\* never as pass, and every status has the same class in the three sheets:
\* the counts of the summary sheet and the sums of the breakdown sheet are
\* the numbers of rows of the results sheet with that class.
C25_StatusClassification ==
    response.kind = "create_review_excel" =>
        /\ \A i \in 1..Len(response.reviews) :
              response.reviews[i].status = <<"Partial", " ", "Pass">>
                  => response.results[i] = "partial"
        /\ \A class \in ReviewClasses :
              /\ response.summary[class] = RowsOfClass(class)
              /\ SumOver(DOMAIN response.breakdown, class) = RowsOfClass(class)

(***************************************************************************)
(* Claims about the allocation workbook, the hook and the counts.          *)
(***************************************************************************)
\* Two sheet titles that differ at most in letter case.
SameSheet(a, b) ==
    \/ a = b
    \/ {a, b} = {"Freedom From Interference", "Freedom from Interference"}

\* C26: the workbook of the tool 'create allocation excel' has the five
\* sheets the tool announces, each announced sheet being in the workbook.
C26_AnnouncedSheetsExist ==
    AllocationExcelOk =>
        /\ Len(response.wb.sheets) = Len(response.announced)
        /\ \A i \in 1..Len(response.announced) :
              \E j \in 1..Len(response.wb.sheets) :
                  SameSheet(response.wb.sheets[j], response.announced[i])

HookHandled == response.kind = "hook" /\ response.path # "short"

\* The value of a key of the working memory, or that the key is absent.
Kept(key) ==
    /\ (key \in DOMAIN working_memory)
           <=> (key \in DOMAIN response.memory_before)
    /\ key \in DOMAIN working_memory =>
           working_memory[key] = response.memory_before[key]

\* C27: once the hook before_cat_sends_message has handled a message of at
\* least 50 non-blank characters, on whichever path, the working memory has
\* no needs_formatting while last_operation and fsc_stage are what they
\* were; and a message the language model is called for is one the flag was
\* set for, the flag being gone after it.
C27_FlagClearedOnEveryPath ==
    /\ (response.kind = "hook"
        /\ response.message.non_blank >= MinContentLength) =>
           /\ response.path # "short"
           /\ "needs_formatting" \notin DOMAIN working_memory
           /\ Kept("last_operation")
           /\ Kept("fsc_stage")
    /\ (response.kind = "hook" /\ response.llm_called) =>
           /\ MemoryGet(response.memory_before, "needs_formatting", FALSE)
           /\ "needs_formatting" \notin DOMAIN working_memory

C27_Witness ==
    /\ response.kind = "hook"
    /\ response.message.non_blank >= MinContentLength
    /\ response.path = "formatted"
    /\ response.llm_called
    /\ "needs_formatting" \in DOMAIN response.memory_before
    /\ "last_operation" \in DOMAIN working_memory
    /\ "fsc_stage" \in DOMAIN working_memory

\* C28: the hook never routes a message to the 'fsrs' formatter, whatever
\* the working memory holds: _format_fsrs is never called.
C28_FsrsNeverRouted ==
    response.kind = "hook" =>
        /\ response.formatter_type # "fsrs"
        /\ ~response.format_fsrs_called

\* The number of FSRs of the working memory whose allocated_to is neither
\* missing, empty nor a not-allocated sentinel.
TrulyAllocated == Len(FilterSeq(fsc_functional_requirements, IsAllocated))

\* C29: every allocation count reported for the FSRs of the working memory
\* (statistics, completeness check, statistics sheet of the workbook) is the
\* number of FSRs whose allocated_to is neither missing, empty nor one of
\* 'TBD', 'NOT ALLOCATED', 'N/A', and allocated + unallocated = total.
C29_OneAllocationPredicate ==
    /\ response.kind = "FSCWordGenerator.calculate_statistics" =>
           response.result.allocated_fsrs = TrulyAllocated
    /\ response.kind = "FSCWordGenerator.check_completeness" =>
           \A i \in 1..Len(response.result) :
               response.result[i].w = "Only n/m FSRs allocated" =>
                   response.result[i].n = TrulyAllocated
    /\ response.kind = "fsr_excel_generator._create_statistics_sheet" =>
           /\ response.result.allocated = TrulyAllocated
           /\ response.result.allocated + response.result.unallocated
                  = Len(fsc_functional_requirements)

HaraWorkbook == response.kind = "create_hara_excel"

\* The entries of the workbook whose own ASIL level is the given one: the
\* level the Safety Goals Summary reads from the value.
EntriesOfLevel(level) ==
    {i \in DOMAIN response.hara_entries :
        AsilClean(Strip(response.hara_entries[i].asil)) = level}

\* C30: the ASIL counts of the HARA summary sheet count each entry under its
\* own level, 'D' and 'ASIL D' alike, the level the Safety Goals Summary
\* derives for it; the counts sum to the number of entries with a recognized
\* level.
C30_AsilBucketIsOwnLevel ==
    HaraWorkbook =>
        /\ \A level \in DOMAIN asil_priority :
               response.summary.asil_counts[level]
                   = Cardinality(EntriesOfLevel(level))
        /\ \A r \in DOMAIN response.safety_goals_summary :
               LET row == response.safety_goals_summary[r]
               IN  row.occurrences = 1 =>
                       response.summary.asil_counts[row.max_asil] >= 1

====
